---- MODULE Spec2Model ----
(***************************************************************************)
(* Model of the physics-chain cord subsystem of Balthazar                  *)
(* (src/src/cord_system.rs, initial state from src/src/setup.rs).          *)
(*                                                                         *)
(* Lengths and coordinates are whole world units.  Time is counted in      *)
(* tenths of a second (TicksPerSecond), so a frame delta of dt adds        *)
(* extension_speed * dt / TicksPerSecond to the cord and removes           *)
(* retraction_speed * dt / TicksPerSecond; all of these are exact.         *)
(* Distances are compared through their squares.                           *)
(*                                                                         *)
(* Entities are natural numbers; NoEntity (0) stands for Option::None.     *)
(* Commands (spawn / despawn) are deferred as in the engine: an entity     *)
(* spawned by a system is not visible to queries until the commands are    *)
(* applied at the end of the frame, and a despawned one stays until then.  *)
(***************************************************************************)
EXTENDS Integers, Sequences, FiniteSets, TLC

VARIABLES cord_system, world, pending_spawn, pending_despawn,
          player_pos, frame_log, frame, hold, hung, probe,
          keyboard, cord_trail, cycle, battery, toggles, grid_movement, transform

(* The state of the other subsystems: the Space key as the engine's input  *)
(* resource holds it, the cord of the trail variant (components.rs), the   *)
(* day/night cycle, the player's battery, the system toggles of the debug  *)
(* panel, and the player's grid mover with its position.                    *)
subsystems == <<keyboard, cord_trail, cycle, battery, toggles, grid_movement, transform>>

vars == <<cord_system, world, pending_spawn, pending_despawn,
          player_pos, frame_log, frame, hold, hung, probe,
          keyboard, cord_trail, cycle, battery, toggles, grid_movement, transform>>

----------------------------------------------------------------------------
(* Bounds of the exploration: the longest frame delta, in ticks of        *)
(* 1 / TicksPerSecond seconds, and the number of frames with free input.   *)

MaxDt == 2

MaxFrames == 4

(* The largest number of poles handed to find_closest_pole in SpecPoles. *)
MaxPoles == 3

(* Program constants *)

TicksPerSecond == 10

retraction_speed == 300

extension_speed == 80

max_cord_length == 500

min_cord_length == 50

segment_length == 10

attachment_range == 100

NoEntity == 0

pole_positions == << <<0, 0>>, <<300, 200>>, <<-300, 150>>, <<200, -250>>, <<-150, -200>> >>

NumPoles == Len(pole_positions)

(* Places the physics engine may have moved the player to at the start of *)
(* a frame: the game's spawn point (out of range of every pole, 500 from  *)
(* the centre pole) and a point 60 from the centre pole.                   *)
PlayerPositions == { <<500, 0>>, <<60, 0>> }

----------------------------------------------------------------------------
(* Helpers *)

Max(a, b) == IF a >= b THEN a ELSE b

Min(a, b) == IF a <= b THEN a ELSE b

(* Variant of Last that reads the first element. *)
First(s) == s[1]

Last(s) == s[Len(s)]

(* Variant of Front that drops the first element instead of the last. *)
DropFirst(s) == SubSeq(s, 2, Len(s))

(* Variant of Front that drops every element. *)
DropAll(s) == SubSeq(s, 1, 0)

Front(s) == SubSeq(s, 1, Len(s) - 1)

Range(s) == { s[i] : i \in DOMAIN s }

DistSq(p, q) == (p[1] - q[1]) * (p[1] - q[1]) + (p[2] - q[2]) * (p[2] - q[2])

(* An entity of the world: its marker component and, for joints, the two  *)
(* bodies it connects; for attachment points, a is the parent pole.        *)
Ent(k, a, b) == [kind |-> k, a |-> a, b |-> b]

----------------------------------------------------------------------------
(* The world after setup(): poles 1..NumPoles, one PoleAttachment per pole, *)
(* n cord segments, the player, then the joints: pole attachment to first  *)
(* segment, segment to segment, last segment to player.  Entities that     *)
(* carry none of the queried components (camera, crossbars, eye, pupil,    *)
(* backpack) are left out.                                                  *)

PoleAttachmentId(i) == NumPoles + i

SegmentId(i) == 2 * NumPoles + i

PlayerId(n) == 2 * NumPoles + n + 1

SetupJointId(n, j) == PlayerId(n) + j

SetupEntity(n, e) ==
    IF e <= NumPoles THEN Ent("Pole", NoEntity, NoEntity)
    ELSE IF e <= 2 * NumPoles THEN Ent("PoleAttachment", e - NumPoles, NoEntity)
    ELSE IF e < PlayerId(n) THEN Ent("CordSegment", NoEntity, NoEntity)
    ELSE IF e = PlayerId(n) THEN Ent("Player", NoEntity, NoEntity)
    ELSE IF e = SetupJointId(n, 1)
         THEN Ent("DistanceJoint", PoleAttachmentId(1), SegmentId(1))
    ELSE IF e = SetupJointId(n, n + 1)
         THEN Ent("FixedJoint", SegmentId(n), PlayerId(n))
    ELSE Ent("DistanceJoint", SegmentId(e - SetupJointId(n, 1)),
                              SegmentId(e - SetupJointId(n, 1) + 1))

SetupWorld(n) == [e \in 1..SetupJointId(n, n + 1) |-> SetupEntity(n, e)]

SetupCordSystem(maxL, minL, segL) ==
    LET n == maxL \div segL
    IN  [ segments         |-> [i \in 1..n |-> SegmentId(i)],
          joints           |-> [j \in 1..(n + 1) |-> SetupJointId(n, j)],
          max_length       |-> maxL,
          min_length       |-> minL,
          current_length   |-> maxL,
          segment_length   |-> segL,
          player_entity    |-> PlayerId(n),
          is_retracting    |-> FALSE,
          attached_pole    |-> PoleAttachmentId(1),
          attachment_range |-> attachment_range ]

----------------------------------------------------------------------------
(* The engine interface.  A machine m is the CordSystem resource together  *)
(* with the entity store and the command queue of the running frame.       *)

Machine(cs, w, ps, pd, h) ==
    [cs |-> cs, world |-> w, ps |-> ps, pd |-> pd, hung |-> h]

(* Entity ids are opaque; a new one is the least id that names no entity. *)
FreshId(m) ==
    CHOOSE i \in 1..(Cardinality(DOMAIN m.world) + 1) :
        /\ i \notin DOMAIN m.world
        /\ \A j \in 1..(i - 1) : j \in DOMAIN m.world

(* commands.spawn(bundle): the id is reserved at once, the entity is      *)
(* visible to queries only after the commands are applied.                 *)
Spawn(m, ent) ==
    LET id == FreshId(m)
    IN  [m EXCEPT !.world = [e \in DOMAIN m.world \cup {id} |->
                                 IF e = id THEN ent ELSE m.world[e]],
                  !.ps = m.ps \cup {id}]

(* commands.entity(e).despawn() *)
Despawn(m, e) == [m EXCEPT !.pd = Append(m.pd, e)]

(* query.get(e) for a query filtered With<kind> *)
Queryable(m, e, kind) ==
    /\ e \in DOMAIN m.world
    /\ e \notin m.ps
    /\ m.world[e].kind = kind

(* Applying the queued commands at the end of the frame. *)
ApplyCommands(m) ==
    [m EXCEPT !.world = [e \in DOMAIN m.world \ Range(m.pd) |-> m.world[e]],
              !.ps = {},
              !.pd = <<>>]

----------------------------------------------------------------------------
(* Segment manager *)

(* Variant of add_cord_segment that leaves the old last-to-player joint   *)
(* in place.                                                                *)
add_cord_segment_keeping_player_joint(m) ==
    IF m.cs.segments = <<>> THEN m
    ELSE IF ~Queryable(m, Last(m.cs.segments), "CordSegment") THEN m
    ELSE
      LET new_segment   == FreshId(m)
          m1            == Spawn(m, Ent("CordSegment", NoEntity, NoEntity))
          prev_last     == Last(m1.cs.segments)
          new_joint     == FreshId(m1)
          m3            == Spawn(m1, Ent("DistanceJoint", prev_last, new_segment))
          m4            == [m3 EXCEPT !.cs.joints = Append(m3.cs.joints, new_joint)]
          player_joint  == FreshId(m4)
          m5            == Spawn(m4, Ent("FixedJoint", new_segment, m4.cs.player_entity))
          m6            == [m5 EXCEPT !.cs.joints = Append(m5.cs.joints, player_joint)]
      IN  [m6 EXCEPT !.cs.segments = Append(m6.cs.segments, new_segment)]

(* add_cord_segment: returns m unchanged when the list is empty or the    *)
(* last segment's Transform cannot be read.                                *)
add_cord_segment(m) ==
    IF m.cs.segments = <<>> THEN m
    ELSE IF ~Queryable(m, Last(m.cs.segments), "CordSegment") THEN m
    ELSE
      LET new_segment   == FreshId(m)
          m1            == Spawn(m, Ent("CordSegment", NoEntity, NoEntity))
          m2            == IF m1.cs.joints # <<>>
                           THEN Despawn([m1 EXCEPT !.cs.joints = Front(m1.cs.joints)],
                                        Last(m1.cs.joints))
                           ELSE m1
          prev_last     == Last(m2.cs.segments)
          new_joint     == FreshId(m2)
          m3            == Spawn(m2, Ent("DistanceJoint", prev_last, new_segment))
          m4            == [m3 EXCEPT !.cs.joints = Append(m3.cs.joints, new_joint)]
          player_joint  == FreshId(m4)
          m5            == Spawn(m4, Ent("FixedJoint", new_segment, m4.cs.player_entity))
          m6            == [m5 EXCEPT !.cs.joints = Append(m5.cs.joints, player_joint)]
      IN  [m6 EXCEPT !.cs.segments = Append(m6.cs.segments, new_segment)]

(* Variant of RemoveRefused with the floor off by one. *)
RemoveRefusedBelowTwo(cs) == Len(cs.segments) <= 1

(* The guard of remove_cord_segment: keep at least 2 segments. *)
RemoveRefused(cs) == Len(cs.segments) <= 2

(* Variant of PopJoints that pops a single joint whatever the count. *)
PopOneJoint(m, k) ==
    IF k = 0 \/ m.cs.joints = <<>> THEN m
    ELSE Despawn([m EXCEPT !.cs.joints = Front(m.cs.joints)], Last(m.cs.joints))

(* Variant of PopJoints that drops the handles and despawns nothing. *)
RECURSIVE PopJointsWithoutDespawn(_, _)
PopJointsWithoutDespawn(m, k) ==
    IF k = 0 \/ m.cs.joints = <<>> THEN m
    ELSE PopJointsWithoutDespawn([m EXCEPT !.cs.joints = Front(m.cs.joints)], k - 1)

(* for _ in 0..2 { if let Some(joint) = joints.pop() { despawn } } *)
RECURSIVE PopJoints(_, _)
PopJoints(m, k) ==
    IF k = 0 \/ m.cs.joints = <<>> THEN m
    ELSE PopJoints(Despawn([m EXCEPT !.cs.joints = Front(m.cs.joints)],
                           Last(m.cs.joints)),
                   k - 1)

remove_cord_segment(m) ==
    IF RemoveRefused(m.cs) THEN m
    ELSE
      LET m1 == Despawn([m EXCEPT !.cs.segments = Front(m.cs.segments)],
                        Last(m.cs.segments))
          m2 == PopJoints(m1, 2)
      IN  IF m2.cs.segments # <<>>
          THEN LET player_joint == FreshId(m2)
                   m3 == Spawn(m2, Ent("FixedJoint", Last(m2.cs.segments),
                                       m2.cs.player_entity))
               IN  [m3 EXCEPT !.cs.joints = Append(m3.cs.joints, player_joint)]
          ELSE m2

----------------------------------------------------------------------------
(* Extension / retraction controller *)

ExtendAmount(dt) == (extension_speed * dt) \div TicksPerSecond

(* Variant of RetractAmount that retracts at the extension speed. *)
RetractAmountAtExtensionSpeed(dt) == ExtendAmount(dt)

RetractAmount(dt) == (retraction_speed * dt) \div TicksPerSecond

(* Variant of RetractedLength that forgets the clamp to min_length. *)
RetractedLengthUnclamped(cs, dt) == cs.current_length - RetractAmount(dt)

(* current_length -= speed * dt; current_length = current_length.max(min) *)
RetractedLength(cs, dt) == Max(cs.current_length - RetractAmount(dt), cs.min_length)

(* Variant of ExtendedLength that forgets the clamp to max_length. *)
ExtendedLengthUnclamped(cs, dt) == cs.current_length + ExtendAmount(dt)

(* current_length += speed * dt; current_length = current_length.min(max) *)
ExtendedLength(cs, dt) == Min(cs.current_length + ExtendAmount(dt), cs.max_length)

(* Variant of TargetSegments that rounds up. *)
TargetSegmentsRoundedUp(cs) ==
    (cs.current_length + cs.segment_length - 1) \div cs.segment_length

(* (current_length / segment_length) as usize *)
TargetSegments(cs) == cs.current_length \div cs.segment_length

(* while segments.len() > new_target_segments.max(2) { remove } *)
RECURSIVE RemoveLoop(_, _)
RemoveLoop(m, target) ==
    IF Len(m.cs.segments) > Max(target, 2)
    THEN LET m1 == remove_cord_segment(m)
         IN  IF m1 = m THEN [m EXCEPT !.hung = TRUE] ELSE RemoveLoop(m1, target)
    ELSE m

(* while segments.len() < new_target_segments { add }: a call that leaves *)
(* the state as it was is repeated without end.                            *)
RECURSIVE AddLoop(_, _)
AddLoop(m, target) ==
    IF Len(m.cs.segments) < target
    THEN LET m1 == add_cord_segment(m)
         IN  IF m1 = m THEN [m EXCEPT !.hung = TRUE] ELSE AddLoop(m1, target)
    ELSE m

(* Position of an AttachmentPoint: the XY of its parent pole. *)
AttachmentPos(m, e) == pole_positions[m.world[e].a]

(* Variant of Pulling with the threshold at half the cord length. *)
PullingFromHalfLength(cs, dsq) == 4 * dsq >= cs.current_length * cs.current_length

(* distance >= current_length * 0.95, compared through the squares:       *)
(* 0.95^2 = 361/400.                                                        *)
Pulling(cs, dsq) == 400 * dsq >= 361 * cs.current_length * cs.current_length

(* Variant of MayExtend that extends only out of a retraction, as the      *)
(* first revision of the controller did.                                    *)
MayExtendAfterRetraction(m, ppos) ==
    /\ m.cs.is_retracting
    /\ m.cs.attached_pole # NoEntity
    /\ Queryable(m, m.cs.attached_pole, "AttachmentPoint")
    /\ 400 * DistSq(ppos, pole_positions[m.world[m.cs.attached_pole].a])
           >= 361 * m.cs.current_length * m.cs.current_length
    /\ m.cs.current_length < m.cs.max_length

(* Variant of MayExtend that, when the anchor does not resolve, measures   *)
(* the distance from the pole the anchor entity belongs to.                 *)
MayExtendUnresolved(m, ppos) ==
    /\ m.cs.attached_pole # NoEntity
    /\ m.cs.attached_pole \in DOMAIN m.world
    /\ m.world[m.cs.attached_pole].a \in 1..NumPoles
    /\ 400 * DistSq(ppos, pole_positions[m.world[m.cs.attached_pole].a])
           >= 361 * m.cs.current_length * m.cs.current_length
    /\ m.cs.current_length < m.cs.max_length

(* Variant of MayExtend that leaves out the attachment check and measures *)
(* the distance from the centre pole.                                      *)
MayExtendUnattached(m, ppos) ==
    /\ Pulling(m.cs, DistSq(ppos, pole_positions[1]))
    /\ m.cs.current_length < m.cs.max_length

(* The condition under which the non-retract branch extends the cord.    *)
(* attachment_query is filtered With<AttachmentPoint>: the PoleAttachment  *)
(* entity that setup() attaches the cord to does not match it, so the cord *)
(* extends only after it has been re-attached through                      *)
(* handle_cord_attachment, which attaches to an AttachmentPoint.           *)
MayExtend(m, ppos) ==
    /\ m.cs.attached_pole # NoEntity
    /\ Queryable(m, m.cs.attached_pole, "AttachmentPoint")
    /\ Pulling(m.cs, DistSq(ppos, AttachmentPos(m, m.cs.attached_pole)))
    /\ m.cs.current_length < m.cs.max_length

(* Variant of RetractionBranch whose second arm is a plain else: a tick   *)
(* with retract held at min_length is treated as one without retract.      *)
RetractionBranchPlainElse(m, should_retract, ppos) ==
    IF should_retract /\ m.cs.current_length > m.cs.min_length THEN "retract"
    ELSE IF MayExtend(m, ppos) THEN "extend"
    ELSE "idle"

(* The branch handle_cord_retraction takes. *)
RetractionBranch(m, should_retract, ppos) ==
    IF should_retract /\ m.cs.current_length > m.cs.min_length THEN "retract"
    ELSE IF should_retract THEN "held_at_min"
    ELSE IF MayExtend(m, ppos) THEN "extend"
    ELSE "idle"

handle_cord_retraction(m, should_retract, dt, ppos) ==
    LET branch == RetractionBranch(m, should_retract, ppos)
    IN  CASE branch = "retract" ->
               LET m1 == [m EXCEPT !.cs.is_retracting = TRUE,
                                   !.cs.current_length = RetractedLength(m.cs, dt)]
               IN  RemoveLoop(m1, TargetSegments(m1.cs))
          [] branch = "held_at_min" -> m
          [] branch = "extend" ->
               LET m1 == [m EXCEPT !.cs.current_length = ExtendedLength(m.cs, dt)]
                   m2 == AddLoop(m1, TargetSegments(m1.cs))
               IN  IF m2.hung THEN m2 ELSE [m2 EXCEPT !.cs.is_retracting = FALSE]
          [] OTHER -> [m EXCEPT !.cs.is_retracting = FALSE]

----------------------------------------------------------------------------
(* Attachment controller *)

(* Variant of ClosestAmong that compares with <= and so keeps the last of *)
(* several poles at the same distance.                                     *)
RECURSIVE ClosestAmongLastTie(_, _, _, _, _, _)
ClosestAmongLastTie(poles, i, ppos, max_range, best, best_dsq) ==
    IF i > Len(poles) THEN best
    ELSE LET dsq == DistSq(ppos, poles[i])
         IN  IF dsq <= max_range * max_range /\ (best = NoEntity \/ dsq <= best_dsq)
             THEN ClosestAmongLastTie(poles, i + 1, ppos, max_range, i, dsq)
             ELSE ClosestAmongLastTie(poles, i + 1, ppos, max_range, best, best_dsq)

(* The loop of find_closest_pole over the poles the query yields, in       *)
(* iteration order: best is the pole kept so far (NoEntity for None) and   *)
(* best_dsq its squared distance; closest_distance starts at f32::MAX, so  *)
(* the first pole in range is always taken.                                *)
RECURSIVE ClosestAmong(_, _, _, _, _, _)
ClosestAmong(poles, i, ppos, max_range, best, best_dsq) ==
    IF i > Len(poles) THEN best
    ELSE LET dsq == DistSq(ppos, poles[i])
         IN  IF dsq <= max_range * max_range /\ (best = NoEntity \/ dsq < best_dsq)
             THEN ClosestAmong(poles, i + 1, ppos, max_range, i, dsq)
             ELSE ClosestAmong(poles, i + 1, ppos, max_range, best, best_dsq)

(* find_closest_pole called with a query that yields the given poles. *)
find_closest_pole_among(poles, ppos, max_range) ==
    ClosestAmong(poles, 1, ppos, max_range, NoEntity, 0)

(* find_closest_pole in the game: the poles are those of setup(), visited *)
(* in spawn order.                                                          *)
ClosestFrom(i, ppos, max_range, best, best_dsq) ==
    ClosestAmong(pole_positions, i, ppos, max_range, best, best_dsq)

(* Variant of find_closest_pole without the range check. *)
find_closest_pole_any_range(ppos, max_range) ==
    LET d == CHOOSE d \in { DistSq(ppos, pole_positions[i]) : i \in 1..NumPoles } :
                 \A j \in 1..NumPoles : d <= DistSq(ppos, pole_positions[j])
    IN  CHOOSE i \in 1..NumPoles :
            /\ DistSq(ppos, pole_positions[i]) = d
            /\ \A j \in 1..(i - 1) : DistSq(ppos, pole_positions[j]) # d

find_closest_pole(ppos, max_range) == ClosestFrom(1, ppos, max_range, NoEntity, 0)

(* Variant of ExistingAttachments that never finds an attachment point. *)
ExistingAttachmentsNone(m, pole) == {}

(* attachment_query.iter().find(|(_, ap)| ap.parent_pole == closest_pole) *)
ExistingAttachments(m, pole) ==
    { e \in DOMAIN m.world : Queryable(m, e, "AttachmentPoint") /\ m.world[e].a = pole }

(* Variant of disconnect_cord_from_pole that removes the last joint of    *)
(* the list instead of the first.                                          *)
disconnect_last_joint(m) ==
    LET m1 == IF m.cs.joints # <<>>
              THEN Despawn([m EXCEPT !.cs.joints = Front(m.cs.joints)], Last(m.cs.joints))
              ELSE m
    IN  [m1 EXCEPT !.cs.attached_pole = NoEntity]

disconnect_cord_from_pole(m) ==
    LET m1 == IF m.cs.joints # <<>>
              THEN Despawn([m EXCEPT !.cs.joints = Tail(m.cs.joints)], Head(m.cs.joints))
              ELSE m
    IN  [m1 EXCEPT !.cs.attached_pole = NoEntity]

(* Variant of attach_cord_to_pole that pushes the anchor joint at the end *)
(* of joints instead of inserting it at the front.                          *)
attach_cord_to_pole_at_back(m, attachment_entity) ==
    LET m1 == IF m.cs.segments # <<>>
              THEN LET joint == FreshId(m)
                       m0 == Spawn(m, Ent("DistanceJoint", attachment_entity,
                                          Head(m.cs.segments)))
                   IN  [m0 EXCEPT !.cs.joints = Append(m0.cs.joints, joint)]
              ELSE m
    IN  [m1 EXCEPT !.cs.attached_pole = attachment_entity]

(* Variant of attach_cord_to_pole that spawns no anchor joint. *)
attach_cord_to_pole_without_joint(m, attachment_entity) ==
    [m EXCEPT !.cs.attached_pole = attachment_entity]

attach_cord_to_pole(m, attachment_entity) ==
    LET m1 == IF m.cs.segments # <<>>
              THEN LET joint == FreshId(m)
                       m0 == Spawn(m, Ent("DistanceJoint", attachment_entity,
                                          Head(m.cs.segments)))
                   IN  [m0 EXCEPT !.cs.joints = <<joint>> \o m0.cs.joints]
              ELSE m
    IN  [m1 EXCEPT !.cs.attached_pole = attachment_entity]

(* The branch handle_cord_attachment takes. *)
AttachmentBranch(m, just_pressed, ppos) ==
    IF ~just_pressed THEN "no_key"
    ELSE IF m.cs.attached_pole # NoEntity THEN "detach"
    ELSE IF find_closest_pole(ppos, m.cs.attachment_range) = NoEntity THEN "no_pole"
    ELSE "attach"

handle_cord_attachment(m, just_pressed, ppos) ==
    LET branch == AttachmentBranch(m, just_pressed, ppos)
    IN  CASE branch = "detach" -> disconnect_cord_from_pole(m)
          [] branch = "attach" ->
               LET closest_pole == find_closest_pole(ppos, m.cs.attachment_range)
                   existing     == ExistingAttachments(m, closest_pole)
               IN  IF existing # {}
                   THEN attach_cord_to_pole(m, CHOOSE e \in existing :
                                                   \A f \in existing : e <= f)
                   ELSE LET attachment_entity == FreshId(m)
                        IN  attach_cord_to_pole(
                                Spawn(m, Ent("AttachmentPoint", closest_pole, NoEntity)),
                                attachment_entity)
          [] OTHER -> m

----------------------------------------------------------------------------
(* The game loop.  Each frame runs handle_cord_retraction and              *)
(* handle_cord_attachment once each, in an order the scheduler chooses     *)
(* (main registers them without an ordering), then applies the commands;   *)
(* physics moves the player between frames.  frame_log lists the branches  *)
(* the systems of the running frame took.                                  *)

RetractionLabels == {"retract", "held_at_min", "extend", "idle"}

(* hold records a stretch of frames with Shift held down and a constant   *)
(* frame delta: the delta, the cord length when the stretch began and the  *)
(* number of controller ticks since.  NoHold: the input is free.           *)
NoHold == [dt |-> 0, start |-> 0, ticks |-> 0]

(* probe records the last call whose arguments the exploration keeps: the *)
(* function called, its arguments and what it returned.  NoProbe: none.    *)
NoProbe == [call |-> "none", input |-> <<>>, result |-> <<>>]

AttachmentLabels == {"no_key", "detach", "no_pole", "attach"}

Current == Machine(cord_system, world, pending_spawn, pending_despawn, hung)

Install(m) ==
    /\ cord_system' = m.cs
    /\ world' = m.world
    /\ pending_spawn' = m.ps
    /\ pending_despawn' = m.pd
    /\ hung' = m.hung

(* No key is down. *)
NoKeys == [pressed |-> FALSE, just_pressed |-> FALSE]

(* The cord of the trail variant at start-up: attached to the centre pole, *)
(* no waypoint laid yet.                                                    *)
InitialTrail == [attached_pole |-> 1, trail_path |-> <<>>]

(* DayNightCycle::default(), in ticks: noon of a two-minute day. *)
DefaultCycle == [time_of_day  |-> 60 * TicksPerSecond,
                 day_duration |-> 120 * TicksPerSecond,
                 speed        |-> 1]

(* Charges are counted in thousandths of a unit. *)
ChargeScale == 1000

(* A full battery of 100 units. *)
FullBattery == [max_charge |-> 100 * ChargeScale, current_charge |-> 100 * ChargeScale]

(* Every system switched on. *)
AllOn == [player_movement |-> TRUE, cord_systems |-> TRUE]

(* No move target. *)
NoTarget == <<>>

(* Positions of the grid mover are counted in hundredths of a world unit. *)
PosScale == 100

(* The speed of grid moves, in world units per second. *)
default_move_speed == 300

(* A player standing still on the origin tile. *)
Standing == [target_position |-> NoTarget, move_speed |-> default_move_speed,
             is_moving |-> FALSE]

InitMover ==
    /\ toggles = AllOn
    /\ grid_movement = Standing
    /\ transform = <<0, 0>>

InitCord(maxL, minL, segL) ==
    /\ cord_system = SetupCordSystem(maxL, minL, segL)
    /\ world = SetupWorld(maxL \div segL)
    /\ pending_spawn = {}
    /\ pending_despawn = <<>>
    /\ player_pos = <<maxL, 0>>
    /\ frame_log = <<>>
    /\ frame = 1
    /\ hold = NoHold
    /\ hung = FALSE
    /\ probe = NoProbe

InitWith(maxL, minL, segL) ==
    /\ InitCord(maxL, minL, segL)
    /\ keyboard = NoKeys
    /\ cord_trail = InitialTrail
    /\ cycle = DefaultCycle
    /\ battery = FullBattery
    /\ InitMover

(* The state after setup(). *)
Init == InitWith(max_cord_length, min_cord_length, segment_length)

(* handle_cord_retraction run as this frame's system with the given       *)
(* keyboard state and frame delta.                                         *)
RetractionStep(should_retract, dt) ==
    /\ ~hung
    /\ Range(frame_log) \cap RetractionLabels = {}
    /\ Install(handle_cord_retraction(Current, should_retract, dt, player_pos))
    /\ frame_log' = Append(frame_log,
                           RetractionBranch(Current, should_retract, player_pos))
    /\ UNCHANGED <<player_pos, frame, subsystems>>

(* The keyboard and the clock are free: any Shift state, any delta. *)
RetractionSystem ==
    /\ hold = NoHold
    /\ \E should_retract \in BOOLEAN, dt \in 1..MaxDt : RetractionStep(should_retract, dt)
    /\ UNCHANGED <<hold, probe>>

AttachmentSystem ==
    /\ ~hung
    /\ Range(frame_log) \cap AttachmentLabels = {}
    /\ \E just_pressed \in BOOLEAN :
          /\ Install(handle_cord_attachment(Current, just_pressed, player_pos))
          /\ frame_log' = Append(frame_log,
                                 AttachmentBranch(Current, just_pressed, player_pos))
    /\ UNCHANGED <<player_pos, frame, hold, probe, subsystems>>

(* Both systems have run: the commands are applied, physics moves the     *)
(* player, the next frame starts.                                          *)
FrameEnds ==
    /\ ~hung
    /\ Range(frame_log) \cap RetractionLabels # {}
    /\ Range(frame_log) \cap AttachmentLabels # {}
    /\ Install(ApplyCommands(Current))
    /\ player_pos' \in PlayerPositions
    /\ frame_log' = <<>>

EndFrame ==
    /\ hold = NoHold
    /\ frame < MaxFrames
    /\ frame' = frame + 1
    /\ FrameEnds
    /\ UNCHANGED <<hold, probe, subsystems>>

Next == RetractionSystem \/ AttachmentSystem \/ EndFrame

Spec == Init /\ [][Next]_vars

----------------------------------------------------------------------------
(* The cord as the test suite configures it (tests/cord_tests.rs):         *)
(* max_length 150, min_length 50, segment_length 20, built the way setup() *)
(* builds it, and driven by the same systems.  In SpecLib a caller may     *)
(* also invoke the public remove_cord_segment directly, once per frame.    *)

test_max_length == 150

test_min_length == 50

test_segment_length == 20

InitTest == InitWith(test_max_length, test_min_length, test_segment_length)

SpecTest == InitTest /\ [][Next]_vars

RemoveCallLabels == {"remove_call", "remove_refused"}

RemoveCall ==
    /\ ~hung
    /\ Range(frame_log) \cap RemoveCallLabels = {}
    /\ Install(remove_cord_segment(Current))
    /\ frame_log' = Append(frame_log, IF Len(cord_system.segments) <= 2
                                      THEN "remove_refused" ELSE "remove_call")
    /\ UNCHANGED <<player_pos, frame, hold, probe, subsystems>>

NextLib == Next \/ RemoveCall

SpecLib == InitTest /\ [][NextLib]_vars

----------------------------------------------------------------------------
(* SpecCalls: the test-suite cord, where in each frame callers invoke the *)
(* public add_cord_segment and remove_cord_segment directly, at most once  *)
(* each, and the toggle handler runs, in any order; the commands are       *)
(* applied when the frame ends.                                             *)

AddCall ==
    /\ ~hung
    /\ "add_call" \notin Range(frame_log)
    /\ Install(add_cord_segment(Current))
    /\ frame_log' = Append(frame_log, "add_call")
    /\ UNCHANGED <<player_pos, frame, hold, probe, subsystems>>

EndCallsFrame ==
    /\ frame < MaxFrames
    /\ frame_log # <<>>
    /\ frame' = frame + 1
    /\ Install(ApplyCommands(Current))
    /\ player_pos' \in PlayerPositions
    /\ frame_log' = <<>>
    /\ UNCHANGED <<hold, probe, subsystems>>

NextCalls == AddCall \/ RemoveCall \/ AttachmentSystem \/ EndCallsFrame

SpecCalls == InitTest /\ [][NextCalls]_vars

----------------------------------------------------------------------------
(* SpecHold: the test-suite cord; at the start of any frame the player may *)
(* press Shift and keep it down, after which every controller tick runs    *)
(* with retract held and the same delta.                                    *)

CeilDiv(a, b) == (a + b - 1) \div b

(* The number of ticks within which a stretch of held retraction must     *)
(* have reached min_length: ceil((L0 - min_length) / (retraction_speed * dt)). *)
HoldBound ==
    CeilDiv((hold.start - cord_system.min_length) * TicksPerSecond,
            retraction_speed * hold.dt)

StartHold ==
    /\ ~hung
    /\ hold = NoHold
    /\ frame_log = <<>>
    /\ cord_system.current_length > cord_system.min_length
    /\ \E dt \in 1..MaxDt :
          hold' = [dt |-> dt, start |-> cord_system.current_length, ticks |-> 0]
    /\ UNCHANGED <<cord_system, world, pending_spawn, pending_despawn,
                   player_pos, frame_log, frame, hung, probe, subsystems>>

(* The stretch is followed for one tick beyond HoldBound. *)
HeldRetractionSystem ==
    /\ hold # NoHold
    /\ hold.ticks <= HoldBound
    /\ RetractionStep(TRUE, hold.dt)
    /\ hold' = [hold EXCEPT !.ticks = @ + 1]
    /\ UNCHANGED probe

EndFrameHeld ==
    /\ hold # NoHold
    /\ FrameEnds
    /\ UNCHANGED <<frame, hold, probe, subsystems>>

NextHold == Next \/ StartHold \/ HeldRetractionSystem \/ EndFrameHeld

SpecHold == InitTest /\ [][NextHold]_vars

----------------------------------------------------------------------------
(* SpecAttach: the game, where a caller may also invoke the public         *)
(* attach_cord_to_pole with the attachment point the cord is already       *)
(* attached to, once per frame.                                             *)

AttachCall ==
    /\ ~hung
    /\ cord_system.attached_pole # NoEntity
    /\ "attach_call" \notin Range(frame_log)
    /\ Install(attach_cord_to_pole(Current, cord_system.attached_pole))
    /\ frame_log' = Append(frame_log, "attach_call")
    /\ UNCHANGED <<player_pos, frame, hold, probe, subsystems>>

NextAttach == Next \/ AttachCall

SpecAttach == Init /\ [][NextAttach]_vars

----------------------------------------------------------------------------
(* SpecPoles: the game, where before the first frame a caller may invoke   *)
(* the public find_closest_pole with a query over any poles; the           *)
(* exploration keeps the call in probe and ends at its result.  The pole   *)
(* places lie at distances 50, 60, 60, 100 and 101 from the origin, so     *)
(* that ties, the edge of attachment_range and poles out of range occur.   *)

PolePlaces == { <<30, 40>>, <<60, 0>>, <<0, 60>>, <<100, 0>>, <<0, 101>> }

ProbePositions == { <<0, 0>>, <<60, 0>> }

FindCall ==
    /\ probe = NoProbe
    /\ frame = 1
    /\ frame_log = <<>>
    /\ \E n \in 0..MaxPoles :
          \E poles \in [1..n -> PolePlaces], ppos \in ProbePositions :
             probe' = [call   |-> "find_closest_pole",
                       input  |-> [poles      |-> poles,
                                   player_pos |-> ppos,
                                   max_range  |-> cord_system.attachment_range],
                       result |-> find_closest_pole_among(
                                      poles, ppos, cord_system.attachment_range)]
    /\ UNCHANGED <<cord_system, world, pending_spawn, pending_despawn,
                   player_pos, frame_log, frame, hold, hung, subsystems>>

NextPoles == (probe = NoProbe /\ Next) \/ FindCall

SpecPoles == Init /\ [][NextPoles]_vars

----------------------------------------------------------------------------
(* SpecTick: the test-suite cord driven by the game loop, where probe      *)
(* keeps, for the last run of handle_cord_retraction, its inputs (the      *)
(* Shift state, the frame delta, current_length and is_retracting as the   *)
(* run found them, the branch the run before it took) and the branch it    *)
(* took.  It also keeps whether the anchor resolved in that run and in the *)
(* run before it.                                                           *)

(* What attachment_query.get(attached_point) would find now. *)
AnchorState ==
    IF cord_system.attached_pole = NoEntity THEN "detached"
    ELSE IF Queryable(Current, cord_system.attached_pole, "AttachmentPoint")
         THEN "resolved"
         ELSE "unresolved"

RecordedRetractionSystem ==
    /\ hold = NoHold
    /\ \E should_retract \in BOOLEAN, dt \in 1..MaxDt :
          /\ RetractionStep(should_retract, dt)
          /\ probe' = [call   |-> "handle_cord_retraction",
                       input  |-> [should_retract  |-> should_retract,
                                   dt              |-> dt,
                                   current_length  |-> cord_system.current_length,
                                   is_retracting   |-> cord_system.is_retracting,
                                   anchor          |-> AnchorState,
                                   previous        |-> probe.result,
                                   previous_anchor |->
                                       IF probe.call = "handle_cord_retraction"
                                       THEN probe.input.anchor ELSE "none"],
                       result |-> RetractionBranch(Current, should_retract, player_pos)]
    /\ UNCHANGED hold

NextTick == RecordedRetractionSystem \/ AttachmentSystem \/ EndFrame

SpecTick == InitTest /\ [][NextTick]_vars

----------------------------------------------------------------------------
(* SpecKey: the test-suite cord in the game loop, where the Space key is   *)
(* the engine's ButtonInput: pressed holds while the key is down,          *)
(* just_pressed only in the frame in which the key went down.  Between two *)
(* frames the engine clears just_pressed and then delivers the frame's key *)
(* event; a press event for a key that is already down (a held key         *)
(* repeating) changes nothing.                                              *)

press(input) ==
    [pressed |-> TRUE, just_pressed |-> input.just_pressed \/ ~input.pressed]

release(input) == [input EXCEPT !.pressed = FALSE]

clear(input) == [input EXCEPT !.just_pressed = FALSE]

(* Variant of space_just_pressed that reads the level of the key. *)
space_pressed(input) == input.pressed

(* keyboard.just_pressed(KeyCode::Space) *)
space_just_pressed(input) == input.just_pressed

KeyEvents == {"press", "release", "none"}

KeyboardAfter(input, event) ==
    CASE event = "press"   -> press(clear(input))
      [] event = "release" -> release(clear(input))
      [] OTHER             -> clear(input)

KeyAttachmentSystem ==
    /\ ~hung
    /\ Range(frame_log) \cap AttachmentLabels = {}
    /\ Install(handle_cord_attachment(Current, space_just_pressed(keyboard),
                                      player_pos))
    /\ frame_log' = Append(frame_log,
                           AttachmentBranch(Current, space_just_pressed(keyboard),
                                            player_pos))
    /\ UNCHANGED <<player_pos, frame, hold, probe, subsystems>>

EndKeyFrame ==
    /\ frame < MaxFrames
    /\ frame' = frame + 1
    /\ FrameEnds
    /\ \E event \in KeyEvents : keyboard' = KeyboardAfter(keyboard, event)
    /\ UNCHANGED <<hold, probe, cord_trail, cycle, battery, toggles, grid_movement,
                   transform>>

NextKey == RetractionSystem \/ KeyAttachmentSystem \/ EndKeyFrame

SpecKey == InitTest /\ [][NextKey]_vars

----------------------------------------------------------------------------
(* SpecRender: the test-suite cord in the game loop with the path renderer *)
(* as the last system of every frame.  The renderer samples after the      *)
(* segment adjustment of the frame has completed, that is, with the        *)
(* commands queued by the earlier systems applied.                          *)

(* Variant of ControlPoints that leaves out the last segment. *)
ControlPointsSkippingLast(m) ==
    LET anchor == IF /\ m.cs.attached_pole # NoEntity
                     /\ Queryable(m, m.cs.attached_pole, "AttachmentPoint")
                  THEN <<m.cs.attached_pole>> ELSE <<>>
        segs   == SelectSeq(Front(m.cs.segments),
                            LAMBDA e : Queryable(m, e, "CordSegment"))
    IN  anchor \o segs \o <<m.cs.player_entity>>

(* The control points render_cord_meshes collects, each named by the      *)
(* entity whose Transform it is read from: the attachment point if the     *)
(* cord is attached and the point resolves, every segment of               *)
(* cord_system.segments that segment_query resolves, in order, and the     *)
(* player (whose point is shifted to the backpack).                         *)
ControlPoints(m) ==
    LET anchor == IF /\ m.cs.attached_pole # NoEntity
                     /\ Queryable(m, m.cs.attached_pole, "AttachmentPoint")
                  THEN <<m.cs.attached_pole>> ELSE <<>>
        segs   == SelectSeq(m.cs.segments,
                            LAMBDA e : Queryable(m, e, "CordSegment"))
    IN  anchor \o segs \o <<m.cs.player_entity>>

(* The synchronisation point between the adjusting systems and the        *)
(* renderer.                                                                *)
SyncPoint(m) == ApplyCommands(m)

RenderSystem ==
    /\ ~hung
    /\ Range(frame_log) \cap RetractionLabels # {}
    /\ Range(frame_log) \cap AttachmentLabels # {}
    /\ "render" \notin Range(frame_log)
    /\ Install(SyncPoint(Current))
    /\ probe' = [call   |-> "render_cord_meshes",
                 input  |-> [segments |-> cord_system.segments,
                             spawned  |-> pending_spawn],
                 result |-> ControlPoints(SyncPoint(Current))]
    /\ frame_log' = Append(frame_log, "render")
    /\ UNCHANGED <<player_pos, frame, hold, subsystems>>

EndRenderFrame ==
    /\ "render" \in Range(frame_log)
    /\ frame < MaxFrames
    /\ frame' = frame + 1
    /\ FrameEnds
    /\ probe' = NoProbe
    /\ UNCHANGED <<hold, subsystems>>

NextRender == RetractionSystem \/ AttachmentSystem \/ RenderSystem \/ EndRenderFrame

SpecRender == InitTest /\ [][NextRender]_vars

----------------------------------------------------------------------------
(* SpecTrail: the cord of the trail variant (CordSystem of components.rs:  *)
(* attached_pole and trail_path).  Its Trail Tracker and its toggle are    *)
(* not among the sources; they follow sections 4.3 and 4.4 of the          *)
(* specification.  Each frame runs the tracker, then the toggle, then the  *)
(* player moves.  Waypoints are tile centres in world units; here          *)
(* attached_pole names the pole itself.                                     *)

tile_size == 64

(* a / b rounded to the nearest integer, halves away from zero (b > 0). *)
RoundDiv(a, b) ==
    IF a >= 0 THEN (2 * a + b) \div (2 * b) ELSE 0 - ((b - 2 * a) \div (2 * b))

(* grid_x = (wx / (tile/2) + wy / (tile/4)) / 2 and                        *)
(* grid_y = (wy / (tile/4) - wx / (tile/2)) / 2, rounded.                   *)
world_to_grid(p) ==
    << RoundDiv(p[1] + 2 * p[2], tile_size), RoundDiv(2 * p[2] - p[1], tile_size) >>

(* The inverse isometric transform: the centre of a tile. *)
grid_to_world(g) ==
    << ((g[1] - g[2]) * tile_size) \div 2, ((g[1] + g[2]) * tile_size) \div 4 >>

snap_to_tile(p) == grid_to_world(world_to_grid(p))

(* Two points are the same tile when they are no more than 0.1 apart. *)
SameTile(p, q) == 100 * DistSq(p, q) <= 1

(* Where the player may stand in SpecTrail: on the centre pole's tile, on *)
(* two tiles next to it, between the poles out of range of both, and on    *)
(* two tiles within range of the second pole.                               *)
TrailPositions ==
    { <<5, 3>>, <<30, 20>>, <<60, -4>>, <<150, 100>>, <<290, 200>>, <<260, 190>> }

TrailLabels == {"trail_skip", "trail_init", "trail_pop", "trail_push", "trail_keep"}

TrailToggleLabels ==
    {"trail_no_key", "trail_detach", "trail_no_pole", "trail_attach"}

(* The branch the Trail Tracker takes. *)
TrailBranch(ct, ppos) ==
    LET path == ct.trail_path
        tile == snap_to_tile(ppos)
    IN  IF ct.attached_pole = NoEntity THEN "trail_skip"
        ELSE IF path = <<>> THEN "trail_init"
        ELSE IF Len(path) >= 2 /\ SameTile(tile, path[Len(path) - 1]) THEN "trail_pop"
        ELSE IF ~SameTile(tile, Last(path)) THEN "trail_push"
        ELSE "trail_keep"

update_trail(ct, ppos) ==
    LET branch == TrailBranch(ct, ppos)
    IN  CASE branch = "trail_init" ->
               [ct EXCEPT !.trail_path =
                              <<snap_to_tile(pole_positions[ct.attached_pole])>>]
          [] branch = "trail_pop"  -> [ct EXCEPT !.trail_path = Front(@)]
          [] branch = "trail_push" ->
               [ct EXCEPT !.trail_path = Append(@, snap_to_tile(ppos))]
          [] OTHER -> ct

(* The branch the toggle of the trail variant takes. *)
TrailToggleBranch(ct, just_pressed, ppos) ==
    IF ~just_pressed THEN "trail_no_key"
    ELSE IF ct.attached_pole # NoEntity THEN "trail_detach"
    ELSE IF find_closest_pole(ppos, attachment_range) = NoEntity THEN "trail_no_pole"
    ELSE "trail_attach"

toggle_trail(ct, just_pressed, ppos) ==
    LET branch == TrailToggleBranch(ct, just_pressed, ppos)
    IN  CASE branch = "trail_detach" ->
               [attached_pole |-> NoEntity, trail_path |-> <<>>]
          [] branch = "trail_attach" ->
               [attached_pole |-> find_closest_pole(ppos, attachment_range),
                trail_path    |-> <<>>]
          [] OTHER -> ct

(* What probe keeps of the tracker tick before the last one. *)
NoTrailTick == [trail_path |-> <<>>, tile |-> <<>>]

(* The tracker's tick.  probe keeps the path the tick found, the player's *)
(* snapped tile, the same two of the tick before it (while the cord has    *)
(* stayed attached), and the branch taken.                                  *)
TrailTracker ==
    /\ frame_log = <<>>
    /\ cord_trail' = update_trail(cord_trail, player_pos)
    /\ frame_log' = <<TrailBranch(cord_trail, player_pos)>>
    /\ probe' = IF cord_trail.attached_pole = NoEntity THEN NoProbe
                ELSE [call   |-> "update_trail",
                      input  |-> [trail_path |-> cord_trail.trail_path,
                                  tile       |-> snap_to_tile(player_pos),
                                  previous   |->
                                      IF probe.call = "update_trail"
                                      THEN [trail_path |-> probe.input.trail_path,
                                            tile       |-> probe.input.tile]
                                      ELSE NoTrailTick],
                      result |-> TrailBranch(cord_trail, player_pos)]
    /\ UNCHANGED <<cord_system, world, pending_spawn, pending_despawn,
                   player_pos, frame, hold, hung, keyboard, cycle, battery,
                   toggles, grid_movement, transform>>

TrailToggle ==
    /\ Len(frame_log) = 1
    /\ \E just_pressed \in BOOLEAN :
          /\ cord_trail' = toggle_trail(cord_trail, just_pressed, player_pos)
          /\ frame_log' = Append(frame_log,
                                 TrailToggleBranch(cord_trail, just_pressed, player_pos))
          /\ probe' = IF TrailToggleBranch(cord_trail, just_pressed, player_pos)
                           \in {"trail_detach", "trail_attach"}
                      THEN NoProbe ELSE probe
    /\ UNCHANGED <<cord_system, world, pending_spawn, pending_despawn,
                   player_pos, frame, hold, hung, keyboard, cycle, battery,
                   toggles, grid_movement, transform>>

EndTrailFrame ==
    /\ Len(frame_log) = 2
    /\ frame < MaxFrames
    /\ frame' = frame + 1
    /\ frame_log' = <<>>
    /\ player_pos' \in TrailPositions
    /\ UNCHANGED <<cord_system, world, pending_spawn, pending_despawn,
                   hold, hung, probe, subsystems>>

NextTrail == TrailTracker \/ TrailToggle \/ EndTrailFrame

InitTrail ==
    /\ InitCord(test_max_length, test_min_length, test_segment_length)
    /\ keyboard = NoKeys
    /\ cord_trail = InitialTrail
    /\ cycle = DefaultCycle
    /\ battery = FullBattery
    /\ InitMover

SpecTrail == InitTrail /\ [][NextTrail]_vars

----------------------------------------------------------------------------
(* SpecDay: the day/night cycle.  Times are in ticks of 1 / TicksPerSecond *)
(* seconds, speed is the cycle's multiplier; each step is one run of       *)
(* update_day_night_cycle with a frame delta of 1..MaxDt ticks.  The cycle *)
(* starts at any of a few times of a two-minute day and with any of a few  *)
(* speeds, of which the largest makes one frame longer than a day.         *)

DaySpeeds == {1, 10, 700}

DayStartTimes == {0, 300, 600, 900, 1190}

update_day_night_cycle(c, dt) ==
    LET t == c.time_of_day + dt * c.speed
    IN  [c EXCEPT !.time_of_day = IF t >= c.day_duration
                                  THEN t - c.day_duration ELSE t]

DayTick ==
    /\ frame < MaxFrames
    /\ frame' = frame + 1
    /\ \E dt \in 1..MaxDt :
          /\ cycle' = update_day_night_cycle(cycle, dt)
          /\ probe' = [call   |-> "update_day_night_cycle",
                       input  |-> [time_of_day |-> cycle.time_of_day, dt |-> dt],
                       result |-> cycle'.time_of_day]
    /\ UNCHANGED <<cord_system, world, pending_spawn, pending_despawn,
                   player_pos, frame_log, hold, hung, keyboard, cord_trail, battery,
                   toggles, grid_movement, transform>>

NextDay == DayTick

InitDay ==
    /\ InitCord(test_max_length, test_min_length, test_segment_length)
    /\ keyboard = NoKeys
    /\ cord_trail = InitialTrail
    /\ battery = FullBattery
    /\ InitMover
    /\ \E t \in DayStartTimes, s \in DaySpeeds :
          cycle = [DefaultCycle EXCEPT !.time_of_day = t, !.speed = s]

SpecDay == InitDay /\ [][NextDay]_vars

----------------------------------------------------------------------------
(* SpecPower: the player's battery under the three systems that write it,  *)
(* each run once per frame in any order: transfer_power from the attached  *)
(* pole, solar_charge and the drain of move_player.  Charges are in        *)
(* thousandths of a unit (ChargeScale).  The cycle stands still at one of  *)
(* the times of DayStartTimes.                                              *)

(* get_brightness in hundredths, sampled at the twelfths of the day:      *)
(* ((cos(2 pi n) + 1) / 2).max(0.2) for n = 0, 1/12, .., 11/12.            *)
BrightnessTable == <<100, 93, 75, 50, 25, 20, 20, 20, 25, 50, 75, 93>>

get_brightness(c) ==
    BrightnessTable[(((c.time_of_day * 12) \div c.day_duration) % 12) + 1]

(* max_output of the attached pole's PowerSource, in units per second;    *)
(* 0 stands for a pole without a PowerSource.                               *)
PowerOutputs == {0, 50}

(* max_output of the player's SolarPanel, as in the tests. *)
PanelOutputs == {10, 20}

BatteryCharges == {0, 1000, 99000, 100000}

drain_per_move == 2 * ChargeScale

(* Variant of ChargedTo without the cap at max_charge. *)
ChargedToUncapped(b, charge_amount) ==
    [b EXCEPT !.current_charge = b.current_charge + charge_amount]

(* (battery.current_charge + charge_amount).min(battery.max_charge) *)
ChargedTo(b, charge_amount) ==
    [b EXCEPT !.current_charge = Min(b.current_charge + charge_amount, b.max_charge)]

TransferAmount(max_output, dt) == (max_output * dt * ChargeScale) \div TicksPerSecond

transfer_power(b, attached_pole, max_output, dt) ==
    IF /\ attached_pole # NoEntity
       /\ max_output # 0
       /\ b.current_charge < b.max_charge
    THEN ChargedTo(b, TransferAmount(max_output, dt))
    ELSE b

SolarAmount(max_output, c, dt) ==
    (max_output * get_brightness(c) * dt * ChargeScale) \div (100 * TicksPerSecond)

solar_charge(b, c, max_output, dt) ==
    IF b.current_charge < b.max_charge
    THEN ChargedTo(b, SolarAmount(max_output, c, dt))
    ELSE b

(* The drain of move_player when a move key has just been pressed. *)
move_player(b, key_pressed) ==
    IF key_pressed /\ b.current_charge > 0
    THEN [b EXCEPT !.current_charge = Max(b.current_charge - drain_per_move, 0)]
    ELSE b

PowerStep(label, b, amount) ==
    /\ label \notin Range(frame_log)
    /\ battery' = b
    /\ frame_log' = Append(frame_log, label)
    /\ probe' = [call   |-> label,
                 input  |-> [current_charge |-> battery.current_charge,
                             amount         |-> amount],
                 result |-> b.current_charge]
    /\ UNCHANGED <<cord_system, world, pending_spawn, pending_despawn,
                   player_pos, frame, hold, hung, keyboard, cord_trail, cycle,
                   toggles, grid_movement, transform>>

TransferPower ==
    \E max_output \in PowerOutputs, dt \in 1..MaxDt :
        PowerStep("transfer_power",
                  transfer_power(battery, cord_trail.attached_pole, max_output, dt),
                  TransferAmount(max_output, dt))

SolarCharge ==
    \E max_output \in PanelOutputs, dt \in 1..MaxDt :
        PowerStep("solar_charge",
                  solar_charge(battery, cycle, max_output, dt),
                  SolarAmount(max_output, cycle, dt))

MovePlayer ==
    \E key_pressed \in BOOLEAN :
        PowerStep("move_player", move_player(battery, key_pressed),
                  IF key_pressed THEN drain_per_move ELSE 0)

EndPowerFrame ==
    /\ Len(frame_log) = 3
    /\ frame < MaxFrames
    /\ frame' = frame + 1
    /\ frame_log' = <<>>
    /\ probe' = NoProbe
    /\ UNCHANGED <<cord_system, world, pending_spawn, pending_despawn,
                   player_pos, hold, hung, subsystems>>

NextPower == TransferPower \/ SolarCharge \/ MovePlayer \/ EndPowerFrame

InitPower ==
    /\ InitCord(test_max_length, test_min_length, test_segment_length)
    /\ keyboard = NoKeys
    /\ cord_trail = InitialTrail
    /\ InitMover
    /\ \E t \in DayStartTimes : cycle = [DefaultCycle EXCEPT !.time_of_day = t]
    /\ \E charge \in BatteryCharges :
          battery = [FullBattery EXCEPT !.current_charge = charge]

SpecPower == InitPower /\ [][NextPower]_vars

----------------------------------------------------------------------------
(* The step just taken was a run of a system that took branch label. *)
Ran(label) == frame_log' = Append(frame_log, label)

(* The running frame has run a system that took branch label. *)
Logged(label) == label \in Range(frame_log)

RetractionRan == \E label \in RetractionLabels : Ran(label)

AttachmentRan == \E label \in AttachmentLabels : Ran(label)

Attached == cord_system.attached_pole # NoEntity

(* attachment_query.get(attached_point) succeeds: the cord is attached to *)
(* an entity that exists, carries AttachmentPoint and is not a spawn still *)
(* waiting in the command queue.                                            *)
AnchorResolves ==
    /\ cord_system.attached_pole \in DOMAIN world
    /\ cord_system.attached_pole \notin pending_spawn
    /\ world[cord_system.attached_pole].kind = "AttachmentPoint"

(* The squared distance from the player to the attached anchor. *)
AnchorDistSq ==
    DistSq(player_pos, pole_positions[world[cord_system.attached_pole].a])

(* distance >= 0.95 * current_length, as 20 * distance >= 19 * length. *)
PlayerPulling ==
    20 * 20 * AnchorDistSq >=
        19 * 19 * cord_system.current_length * cord_system.current_length

(* The step just taken was a run of handle_cord_retraction recorded in    *)
(* probe.                                                                   *)
JointKinds == {"DistanceJoint", "FixedJoint"}

(* The entities of the given kinds that exist or are queued to be spawned *)
(* and are not queued to be despawned.                                      *)
LiveEntities(kinds) ==
    { e \in DOMAIN world \ Range(pending_despawn) : world[e].kind \in kinds }

(* The AttachmentPoint entities of a pole, spawned or queued to be. *)
AttachmentPointsOf(w, pole) ==
    { e \in DOMAIN w : w[e].kind = "AttachmentPoint" /\ w[e].a = pole }

TickRecorded == RetractionRan /\ probe'.call = "handle_cord_retraction"

----------------------------------------------------------------------------
(* SpecPull: the game, where at the start of any frame in which the cord   *)
(* is attached to an anchor that resolves and the player pulls (stands at  *)
(* 0.95 * current_length or more from the anchor), a stretch may begin in  *)
(* which the player stays where it is, Shift and Space are never pressed,  *)
(* and every frame runs the controller with any delta.  probe marks the    *)
(* stretch.                                                                 *)

PullStretch == [call |-> "pull", input |-> <<>>, result |-> <<>>]

StartPull ==
    /\ ~hung
    /\ hold = NoHold
    /\ probe = NoProbe
    /\ frame_log = <<>>
    /\ AnchorResolves
    /\ PlayerPulling
    /\ probe' = PullStretch
    /\ UNCHANGED <<cord_system, world, pending_spawn, pending_despawn,
                   player_pos, frame_log, frame, hold, hung, subsystems>>

PullTick ==
    /\ probe = PullStretch
    /\ \E dt \in 1..MaxDt : RetractionStep(FALSE, dt)
    /\ UNCHANGED <<hold, probe>>

(* The frame of a stretch ends: the commands are applied; the toggle       *)
(* handler has seen no key and the player has not moved.                    *)
EndPullFrame ==
    /\ probe = PullStretch
    /\ ~hung
    /\ Range(frame_log) \cap RetractionLabels # {}
    /\ Install(ApplyCommands(Current))
    /\ frame_log' = <<>>
    /\ UNCHANGED <<player_pos, frame, hold, probe, subsystems>>

NextPull == (probe = NoProbe /\ Next) \/ StartPull \/ PullTick \/ EndPullFrame

(* PullTick can run: a stretch is on, the controller has returned from    *)
(* its last run and has not run in this frame.                              *)
PullTickEnabled ==
    /\ probe = PullStretch
    /\ ~hung
    /\ Range(frame_log) \cap RetractionLabels = {}

(* The engine keeps running frames: the controller of a stretch runs      *)
(* whenever it can (weak fairness of PullTick, written with its enabling   *)
(* condition) and so does the end of the frame.                             *)
SpecPull ==
    /\ Init
    /\ [][NextPull]_vars
    /\ ([]<>(~PullTickEnabled) \/ []<><<PullTick>>_vars)
    /\ WF_vars(EndPullFrame)

----------------------------------------------------------------------------
(* SpecToggle: the test-suite cord in the game loop, where the two cord    *)
(* systems are scheduled through their wrappers and the cord_systems       *)
(* toggle is flipped by clicks on its button (update_ui).  probe keeps the *)
(* last wrapper run: the toggle and the keys it found, and the branch of   *)
(* the controller it ran, if any.                                           *)

(* Variant of cord_retraction_wrapper that does not read the toggle. *)
cord_retraction_wrapper_unguarded(m, t, should_retract, dt, ppos) ==
    handle_cord_retraction(m, should_retract, dt, ppos)

cord_retraction_wrapper(m, t, should_retract, dt, ppos) ==
    IF ~t.cord_systems THEN m
    ELSE handle_cord_retraction(m, should_retract, dt, ppos)

cord_attachment_wrapper(m, t, just_pressed, ppos) ==
    IF ~t.cord_systems THEN m
    ELSE handle_cord_attachment(m, just_pressed, ppos)

(* update_ui on a click on a toggle button. *)
update_ui(t, button) == [t EXCEPT ![button] = ~t[button]]

RetractionWrapperLabels == RetractionLabels \cup {"retraction_off"}

AttachmentWrapperLabels == AttachmentLabels \cup {"attachment_off"}

RetractionWrapperBranch(m, t, should_retract, ppos) ==
    IF ~t.cord_systems THEN "retraction_off"
    ELSE RetractionBranch(m, should_retract, ppos)

AttachmentWrapperBranch(m, t, just_pressed, ppos) ==
    IF ~t.cord_systems THEN "attachment_off"
    ELSE AttachmentBranch(m, just_pressed, ppos)

CordRetractionWrapper ==
    /\ ~hung
    /\ Range(frame_log) \cap RetractionWrapperLabels = {}
    /\ \E should_retract \in BOOLEAN, dt \in 1..MaxDt :
          /\ Install(cord_retraction_wrapper(Current, toggles, should_retract, dt,
                                             player_pos))
          /\ frame_log' = Append(frame_log,
                                 RetractionWrapperBranch(Current, toggles,
                                                         should_retract, player_pos))
          /\ probe' = [call   |-> "cord_retraction_wrapper",
                       input  |-> [cord_systems |-> toggles.cord_systems,
                                   key          |-> should_retract,
                                   dt           |-> dt],
                       result |-> RetractionWrapperBranch(Current, toggles,
                                                          should_retract, player_pos)]
    /\ UNCHANGED <<player_pos, frame, hold, subsystems>>

CordAttachmentWrapper ==
    /\ ~hung
    /\ Range(frame_log) \cap AttachmentWrapperLabels = {}
    /\ \E just_pressed \in BOOLEAN :
          /\ Install(cord_attachment_wrapper(Current, toggles, just_pressed,
                                             player_pos))
          /\ frame_log' = Append(frame_log,
                                 AttachmentWrapperBranch(Current, toggles,
                                                         just_pressed, player_pos))
          /\ probe' = [call   |-> "cord_attachment_wrapper",
                       input  |-> [cord_systems |-> toggles.cord_systems,
                                   key          |-> just_pressed,
                                   dt           |-> 0],
                       result |-> AttachmentWrapperBranch(Current, toggles,
                                                          just_pressed, player_pos)]
    /\ UNCHANGED <<player_pos, frame, hold, subsystems>>

(* A click on the "Cord Systems" button. *)
UpdateUi ==
    /\ ~hung
    /\ "update_ui" \notin Range(frame_log)
    /\ toggles' = update_ui(toggles, "cord_systems")
    /\ frame_log' = Append(frame_log, "update_ui")
    /\ UNCHANGED <<cord_system, world, pending_spawn, pending_despawn, player_pos,
                   frame, hold, hung, probe, keyboard, cord_trail, cycle, battery,
                   grid_movement, transform>>

EndToggleFrame ==
    /\ ~hung
    /\ frame < MaxFrames
    /\ Range(frame_log) \cap RetractionWrapperLabels # {}
    /\ Range(frame_log) \cap AttachmentWrapperLabels # {}
    /\ Install(ApplyCommands(Current))
    /\ player_pos' \in PlayerPositions
    /\ frame_log' = <<>>
    /\ frame' = frame + 1
    /\ UNCHANGED <<hold, probe, subsystems>>

NextToggle ==
    CordRetractionWrapper \/ CordAttachmentWrapper \/ UpdateUi \/ EndToggleFrame

SpecToggle == InitTest /\ [][NextToggle]_vars

----------------------------------------------------------------------------
(* SpecMove: grid movement.  Every frame runs move_player and              *)
(* grid_movement_system once each, in an order the scheduler chooses, with *)
(* any set of move keys just pressed and any frame delta; a click on the   *)
(* "Player Movement" button flips its toggle.  transform is the player's   *)
(* translation in hundredths of a world unit, and probe keeps the last     *)
(* move that was started: where from, and its target.                       *)

MoveKeys == {"W", "S", "A", "D"}

(* The speeds a grid mover is given, in world units per second. *)
MoveSpeeds == {100, 170, default_move_speed}

(* The charges the battery starts with, in units. *)
MoveCharges == {0, 2, 3}

(* The offset of the tile a key moves to; W wins over S over A over D. *)
target_offset(keys) ==
    LET half    == (tile_size * PosScale) \div 2
        quarter == (tile_size * PosScale) \div 4
    IN  CASE "W" \in keys -> <<half, quarter>>
          [] "S" \in keys -> <<-half, -quarter>>
          [] "A" \in keys -> <<-half, quarter>>
          [] "D" \in keys -> <<half, -quarter>>
          [] OTHER        -> NoTarget

(* Variant of move_player_grid that accepts a key during a move. *)
move_player_grid_while_moving(t, gm, b, pos, keys) ==
    LET offset == target_offset(keys)
    IN  IF t.player_movement /\ offset # NoTarget /\ b.current_charge > 0
        THEN [gm      |-> [gm EXCEPT !.target_position =
                                         <<pos[1] + offset[1], pos[2] + offset[2]>>,
                                     !.is_moving = TRUE],
              battery |-> move_player(b, TRUE)]
        ELSE [gm |-> gm, battery |-> b]

(* move_player: the mover and the battery after the system has run. *)
move_player_grid(t, gm, b, pos, keys) ==
    LET offset == target_offset(keys)
    IN  IF ~t.player_movement \/ gm.is_moving THEN [gm |-> gm, battery |-> b]
        ELSE IF offset # NoTarget /\ b.current_charge > 0
        THEN [gm      |-> [gm EXCEPT !.target_position =
                                         <<pos[1] + offset[1], pos[2] + offset[2]>>,
                                     !.is_moving = TRUE],
              battery |-> move_player(b, TRUE)]
        ELSE [gm |-> gm, battery |-> b]

MovePlayerLabels == {"move_off", "busy", "no_key", "no_charge", "started"}

MovePlayerBranch(t, gm, b, keys) ==
    IF ~t.player_movement THEN "move_off"
    ELSE IF gm.is_moving THEN "busy"
    ELSE IF target_offset(keys) = NoTarget THEN "no_key"
    ELSE IF b.current_charge > 0 THEN "started"
    ELSE "no_charge"

RECURSIVE SqrtBetween(_, _, _)
SqrtBetween(n, lo, hi) ==
    IF lo >= hi THEN lo
    ELSE LET mid == (lo + hi + 1) \div 2
         IN  IF mid * mid <= n THEN SqrtBetween(n, mid, hi)
             ELSE SqrtBetween(n, lo, mid - 1)

(* The square root of n, rounded down. *)
Sqrt(n) == SqrtBetween(n, 0, Min(n, 46340))

(* a / b rounded towards zero. *)
Quotient(a, b) == IF a >= 0 THEN a \div b ELSE -((-a) \div b)

(* move_speed * time.delta_secs(), in hundredths of a unit. *)
MoveStep(gm, dt) == (gm.move_speed * dt * PosScale) \div TicksPerSecond

(* direction.normalize() * move_speed * time.delta_secs() *)
move_delta(gm, pos, dt) ==
    LET direction == <<gm.target_position[1] - pos[1], gm.target_position[2] - pos[2]>>
        distance  == Sqrt(direction[1] * direction[1] + direction[2] * direction[2])
    IN  <<Quotient(direction[1] * MoveStep(gm, dt), distance),
          Quotient(direction[2] * MoveStep(gm, dt), distance)>>

DistanceSquared(gm, pos) ==
    (gm.target_position[1] - pos[1]) * (gm.target_position[1] - pos[1])
      + (gm.target_position[2] - pos[2]) * (gm.target_position[2] - pos[2])

GridMovementLabels == {"grid_off", "arrived", "snapped", "stepped", "cleared", "resting"}

GridMovementBranch(t, gm, pos, dt) ==
    IF ~t.player_movement THEN "grid_off"
    ELSE IF gm.target_position # NoTarget
    THEN IF DistanceSquared(gm, pos) < (2 * PosScale) * (2 * PosScale) THEN "arrived"
         ELSE IF MoveStep(gm, dt) * MoveStep(gm, dt) >= DistanceSquared(gm, pos)
         THEN "snapped"
         ELSE "stepped"
    ELSE IF gm.is_moving THEN "cleared"
    ELSE "resting"

(* Variant of grid_movement_system without the overshoot check. *)
grid_movement_system_without_snap(t, gm, pos, dt) ==
    IF ~t.player_movement \/ gm.target_position = NoTarget THEN [gm |-> gm, pos |-> pos]
    ELSE [gm  |-> gm,
          pos |-> <<pos[1] + move_delta(gm, pos, dt)[1],
                    pos[2] + move_delta(gm, pos, dt)[2]>>]

(* grid_movement_system: the mover and the translation after the system   *)
(* has run.                                                                 *)
grid_movement_system(t, gm, pos, dt) ==
    LET branch == GridMovementBranch(t, gm, pos, dt)
    IN  CASE branch \in {"arrived", "snapped"} ->
                [gm  |-> [gm EXCEPT !.target_position = NoTarget, !.is_moving = FALSE],
                 pos |-> gm.target_position]
          [] branch = "stepped" ->
                [gm  |-> gm,
                 pos |-> <<pos[1] + move_delta(gm, pos, dt)[1],
                           pos[2] + move_delta(gm, pos, dt)[2]>>]
          [] branch = "cleared" ->
                [gm |-> [gm EXCEPT !.is_moving = FALSE], pos |-> pos]
          [] OTHER -> [gm |-> gm, pos |-> pos]

MovePlayerDue == Range(frame_log) \cap MovePlayerLabels = {}

GridMovementDue == Range(frame_log) \cap GridMovementLabels = {}

StartedMove(from, target) ==
    [call |-> "move_player", input |-> from, result |-> target]

MovePlayerSystem ==
    /\ MovePlayerDue
    /\ \E keys \in SUBSET MoveKeys :
          LET after == move_player_grid(toggles, grid_movement, battery, transform, keys)
          IN  /\ grid_movement' = after.gm
              /\ battery' = after.battery
              /\ frame_log' = Append(frame_log,
                                     MovePlayerBranch(toggles, grid_movement, battery, keys))
              /\ probe' = IF after.gm.target_position # grid_movement.target_position
                          THEN StartedMove(transform, after.gm.target_position)
                          ELSE probe
    /\ UNCHANGED <<cord_system, world, pending_spawn, pending_despawn, player_pos,
                   frame, hold, hung, keyboard, cord_trail, cycle, toggles, transform>>

GridMovementSystem ==
    /\ GridMovementDue
    /\ \E dt \in 1..MaxDt :
          LET after == grid_movement_system(toggles, grid_movement, transform, dt)
          IN  /\ grid_movement' = after.gm
              /\ transform' = after.pos
              /\ frame_log' = Append(frame_log,
                                     GridMovementBranch(toggles, grid_movement,
                                                        transform, dt))
    /\ UNCHANGED <<cord_system, world, pending_spawn, pending_despawn, player_pos,
                   frame, hold, hung, probe, keyboard, cord_trail, cycle, battery,
                   toggles>>

(* A click on the "Player Movement" button. *)
MovementClick ==
    /\ "movement_click" \notin Range(frame_log)
    /\ toggles' = update_ui(toggles, "player_movement")
    /\ frame_log' = Append(frame_log, "movement_click")
    /\ UNCHANGED <<cord_system, world, pending_spawn, pending_despawn, player_pos,
                   frame, hold, hung, probe, keyboard, cord_trail, cycle, battery,
                   grid_movement, transform>>

MoveFrameDone ==
    /\ Range(frame_log) \cap MovePlayerLabels # {}
    /\ Range(frame_log) \cap GridMovementLabels # {}

EndMoveFrame ==
    /\ MoveFrameDone
    /\ frame_log' = <<>>
    /\ UNCHANGED <<cord_system, world, pending_spawn, pending_despawn, player_pos,
                   frame, hold, hung, probe, subsystems>>

NextMove == MovePlayerSystem \/ GridMovementSystem \/ MovementClick \/ EndMoveFrame

InitMove ==
    /\ InitCord(test_max_length, test_min_length, test_segment_length)
    /\ keyboard = NoKeys
    /\ cord_trail = InitialTrail
    /\ cycle = DefaultCycle
    /\ toggles = AllOn
    /\ transform = <<0, 0>>
    /\ \E speed \in MoveSpeeds : grid_movement = [Standing EXCEPT !.move_speed = speed]
    /\ \E charge \in MoveCharges :
          battery = [FullBattery EXCEPT !.current_charge = charge * ChargeScale]

SpecMove == InitMove /\ [][NextMove]_vars

(* The scheduler runs every system in every frame: a system that is due   *)
(* runs, and a frame whose systems have run ends.                           *)
SpecMoveFair ==
    /\ SpecMove
    /\ ([]<>(~MovePlayerDue) \/ []<><<MovePlayerSystem>>_vars)
    /\ ([]<>(~GridMovementDue) \/ []<><<GridMovementSystem>>_vars)
    /\ WF_vars(EndMoveFrame)

----------------------------------------------------------------------------
(* SpecSpline: generate_spline_points called once on any list of at most   *)
(* MaxControlPoints control points with any of the sample counts.  A       *)
(* sampled point with samples_per_segment = s is kept as its exact value   *)
(* times SplineScale(s), so that no rounding enters; probe keeps the       *)
(* arguments of the call and the points returned.                           *)

MaxControlPoints == 4

(* The positions control points are drawn from. *)
SplinePoints == {<<0, 0>>, <<10, 0>>, <<10, 20>>}

(* The sample counts of a call; render_cord_meshes passes 8. *)
SampleCounts == {1, 2, 8}

(* The denominator of a point sampled at t = j / s: 2 * s^3. *)
SplineScale(s) == 2 * s * s * s

Scaled(p, s) == <<p[1] * SplineScale(s), p[2] * SplineScale(s)>>

(* catmull_rom_spline at t = j / s, times SplineScale(s). *)
catmull_rom_spline(p0, p1, p2, p3, j, s) ==
    LET coordinate(i) ==
            (2 * p1[i]) * s * s * s
              + (p2[i] - p0[i]) * j * s * s
              + (2 * p0[i] - 5 * p1[i] + 4 * p2[i] - p3[i]) * j * j * s
              + (3 * p1[i] - p0[i] - 3 * p2[i] + p3[i]) * j * j * j
    IN  <<coordinate(1), coordinate(2)>>

(* The samples j, j + 1, .., s - 1 of one segment. *)
RECURSIVE SegmentSamples(_, _, _, _, _, _)
SegmentSamples(p0, p1, p2, p3, j, s) ==
    IF j >= s THEN <<>>
    ELSE <<catmull_rom_spline(p0, p1, p2, p3, j, s)>>
             \o SegmentSamples(p0, p1, p2, p3, j + 1, s)

(* The samples of the segments i, i + 1, .., len - 1 (i counts from 1). *)
RECURSIVE SplineSegments(_, _, _)
SplineSegments(control_points, i, s) ==
    IF i > Len(control_points) - 1 THEN <<>>
    ELSE LET p0 == IF i = 1 THEN control_points[i] ELSE control_points[i - 1]
             p1 == control_points[i]
             p2 == control_points[i + 1]
             p3 == IF i + 2 <= Len(control_points) THEN control_points[i + 2]
                   ELSE control_points[i + 1]
         IN  SegmentSamples(p0, p1, p2, p3, 0, s)
               \o SplineSegments(control_points, i + 1, s)

(* Variant of generate_spline_points that does not add the final point. *)
generate_spline_points_without_final(control_points, s) ==
    IF Len(control_points) < 2 THEN <<>>
    ELSE IF Len(control_points) = 2
    THEN <<Scaled(control_points[1], s), Scaled(control_points[2], s)>>
    ELSE SplineSegments(control_points, 1, s)

generate_spline_points(control_points, s) ==
    IF Len(control_points) < 2 THEN <<>>
    ELSE IF Len(control_points) = 2
    THEN <<Scaled(control_points[1], s), Scaled(control_points[2], s)>>
    ELSE Append(SplineSegments(control_points, 1, s),
                Scaled(control_points[Len(control_points)], s))

ControlPointLists ==
    UNION { [1..n -> SplinePoints] : n \in 0..MaxControlPoints }

SplineCall ==
    /\ probe = NoProbe
    /\ \E control_points \in ControlPointLists, s \in SampleCounts :
          probe' = [call   |-> "generate_spline_points",
                    input  |-> [control_points      |-> control_points,
                                samples_per_segment |-> s],
                    result |-> generate_spline_points(control_points, s)]
    /\ UNCHANGED <<cord_system, world, pending_spawn, pending_despawn, player_pos,
                   frame_log, frame, hold, hung, subsystems>>

NextSpline == SplineCall

SpecSpline == InitTest /\ [][NextSpline]_vars

----------------------------------------------------------------------------
(* C1: after any sequence of controller ticks, attach/detach toggles and  *)
(* player moves, min_length <= current_length <= max_length.               *)
C1_LengthBounds ==
    /\ cord_system.min_length <= cord_system.current_length
    /\ cord_system.current_length <= cord_system.max_length

(* A retracting tick has brought the cord down to min_length. *)
C1_Witness ==
    /\ Logged("retract")
    /\ cord_system.current_length = cord_system.min_length

(* C2: the cord never has fewer than 2 segments, whatever ticks, toggles  *)
(* and direct remove_cord_segment calls have happened.                     *)
C2_SegmentFloor == Len(cord_system.segments) >= 2

(* remove_cord_segment has been called on a cord of exactly 2 segments. *)
C2_Witness ==
    /\ Logged("remove_refused")
    /\ Len(cord_system.segments) = 2

(* C3 as stated: joints.len() is 2*segments.len() - 1 while attached and  *)
(* 2*segments.len() - 2 while detached.                                    *)
C3_JointCountAsStated ==
    Len(cord_system.joints) =
        IF Attached THEN 2 * Len(cord_system.segments) - 1
                    ELSE 2 * Len(cord_system.segments) - 2

(* C3 amended: joints.len() is segments.len() + 1 while attached (anchor  *)
(* joint, n-1 inter-segment joints, player joint) and segments.len()       *)
(* while detached.                                                          *)
C3_JointCount ==
    Len(cord_system.joints) =
        IF Attached THEN Len(cord_system.segments) + 1
                    ELSE Len(cord_system.segments)

(* An extending tick has added a segment to a re-attached cord. *)
C3_Witness ==
    /\ Logged("extend")
    /\ Attached
    /\ \E e \in pending_spawn : world[e].kind = "CordSegment"

(* C4: a controller tick that starts with the cord detached never         *)
(* increases current_length, whatever the input and the player's place.    *)
C4_NoExtensionDetached ==
    [][ (~Attached /\ RetractionRan) =>
            cord_system'.current_length <= cord_system.current_length ]_vars

(* A non-retract tick has run on a detached cord shorter than max_length  *)
(* while the player stood beyond 95% of its length from the centre pole.   *)
C4_Witness ==
    /\ frame_log = <<"idle">>
    /\ ~Attached
    /\ cord_system.current_length < cord_system.max_length
    /\ Pulling(cord_system, DistSq(player_pos, pole_positions[1]))

(* C5 as stated: a controller tick on a detached cord changes neither     *)
(* current_length nor the segment list, even with retract held.            *)
C5_DetachedTickAsStated ==
    [][ (~Attached /\ RetractionRan) =>
            /\ cord_system'.current_length = cord_system.current_length
            /\ cord_system'.segments = cord_system.segments ]_vars

(* C5 amended: on a detached cord a tick without retraction changes       *)
(* neither current_length nor the segment list (no extension); a tick with *)
(* retract held and current_length > min_length shortens the cord, not     *)
(* below min_length, and adds no segment.                                   *)
C5_DetachedTick ==
    [][ (~Attached /\ RetractionRan) =>
            IF Ran("retract")
            THEN /\ cord_system'.current_length < cord_system.current_length
                 /\ cord_system'.current_length >= cord_system.min_length
                 /\ Len(cord_system'.segments) <= Len(cord_system.segments)
            ELSE /\ cord_system'.current_length = cord_system.current_length
                 /\ cord_system'.segments = cord_system.segments ]_vars

(* A detached cord has been retracted and has lost a segment. *)
C5_Witness ==
    /\ frame_log = <<"retract">>
    /\ ~Attached
    /\ pending_despawn # <<>>

(* The step just taken was a run of handle_cord_attachment with the       *)
(* toggle key just pressed.                                                *)
TogglePressed == \E label \in AttachmentLabels \ {"no_key"} : Ran(label)

NoPoleInRange ==
    \A i \in 1..NumPoles :
        DistSq(player_pos, pole_positions[i]) >
            cord_system.attachment_range * cord_system.attachment_range

(* C6: with retract held on every tick and a fixed dt, from any length L0 *)
(* above min_length, each tick strictly shortens the cord until it is      *)
(* exactly min_length, which happens within                                 *)
(* ceil((L0 - min_length) / (retraction_speed * dt)) ticks, and the length *)
(* is never below min_length.                                               *)
C6_RetractionConverges ==
    /\ [](cord_system.current_length >= cord_system.min_length)
    /\ []((hold # NoHold /\ hold.ticks >= HoldBound) =>
              cord_system.current_length = cord_system.min_length)
    /\ [][ (hold # NoHold /\ RetractionRan
               /\ cord_system.current_length > cord_system.min_length) =>
                 /\ cord_system'.current_length < cord_system.current_length
                 /\ cord_system'.current_length >= cord_system.min_length ]_vars

(* A stretch of held retraction of at least two ticks has reached          *)
(* min_length on the very tick the bound names, clamping on the way.       *)
C6_Witness ==
    /\ hold # NoHold
    /\ hold.ticks = HoldBound
    /\ hold.ticks >= 2
    /\ (hold.start - cord_system.min_length) * TicksPerSecond
           < hold.ticks * retraction_speed * hold.dt
    /\ Logged("retract")
    /\ cord_system.current_length = cord_system.min_length

(* C7: every run of the extension/retraction controller terminates within *)
(* its tick, also when add_cord_segment cannot resolve the last segment.   *)
C7_TickTerminates == ~hung

(* C8: a toggle while the cord is attached ends with attached_pole = None, *)
(* despawns exactly the anchor-side joint and removes it from joints;      *)
(* segments, the other joints and current_length are unchanged.             *)
C8_DetachFrame ==
    [][ (Attached /\ TogglePressed) =>
            /\ cord_system'.attached_pole = NoEntity
            /\ world[Head(cord_system.joints)] =
                   Ent("DistanceJoint", cord_system.attached_pole,
                       Head(cord_system.segments))
            /\ cord_system'.joints = Tail(cord_system.joints)
            /\ pending_despawn' = Append(pending_despawn, Head(cord_system.joints))
            /\ cord_system'.segments = cord_system.segments
            /\ cord_system'.current_length = cord_system.current_length
            /\ UNCHANGED <<world, pending_spawn>> ]_vars

(* The toggle has detached a cord that had been re-attached to a lazily  *)
(* created attachment point.                                               *)
C8_Witness ==
    /\ Logged("detach")
    /\ ~Attached
    /\ pending_despawn # <<>>
    /\ \E e \in DOMAIN world :
          /\ world[e].kind = "AttachmentPoint"
          /\ world[Last(pending_despawn)] =
                 Ent("DistanceJoint", e, Head(cord_system.segments))

(* C9: attaching to the anchor the cord is already attached to, with no   *)
(* detach in between, changes nothing and spawns no joint.                 *)
C9_ReattachNoOp ==
    [][ Ran("attach_call") =>
            /\ cord_system'.attached_pole = cord_system.attached_pole
            /\ cord_system'.joints = cord_system.joints
            /\ cord_system'.segments = cord_system.segments
            /\ pending_spawn' = pending_spawn ]_vars

(* C10: a toggle while detached with no pole within attachment_range      *)
(* leaves attached_pole None, creates no joint and no attachment point,    *)
(* and leaves joints and segments as they are.                              *)
C10_NoPoleNoChange ==
    [][ (~Attached /\ TogglePressed /\ NoPoleInRange) =>
            /\ cord_system'.attached_pole = NoEntity
            /\ UNCHANGED <<cord_system, world, pending_spawn, pending_despawn>> ]_vars

(* The toggle has been pressed on a detached cord out of range of every   *)
(* pole.                                                                    *)
C10_Witness ==
    /\ Logged("no_pole")
    /\ ~Attached
    /\ NoPoleInRange

(* Pole i of poles is within max_range of ppos, no pole is closer, and no *)
(* earlier pole is as close.                                                *)
FirstNearestInRange(poles, ppos, max_range, i) ==
    /\ DistSq(ppos, poles[i]) <= max_range * max_range
    /\ \A j \in 1..Len(poles) : DistSq(ppos, poles[i]) <= DistSq(ppos, poles[j])
    /\ \A j \in 1..(i - 1) : DistSq(ppos, poles[i]) < DistSq(ppos, poles[j])

(* C11: for every list of poles and every player position,                *)
(* find_closest_pole returns None exactly when no pole is within           *)
(* attachment_range, and otherwise the first, in iteration order, of the   *)
(* poles at the least distance, which is within range; a toggle while      *)
(* detached with a pole in range attaches the cord to an attachment point  *)
(* of that pole.                                                            *)
C11_ClosestPole ==
    /\ [](probe.call = "find_closest_pole" =>
            LET poles == probe.input.poles
                ppos  == probe.input.player_pos
                range == probe.input.max_range
            IN  /\ probe.result = NoEntity <=>
                       \A i \in 1..Len(poles) :
                           DistSq(ppos, poles[i]) > range * range
                /\ probe.result # NoEntity =>
                       /\ probe.result \in 1..Len(poles)
                       /\ FirstNearestInRange(poles, ppos, range, probe.result))
    /\ [][ (~Attached /\ TogglePressed /\ ~NoPoleInRange) =>
              /\ cord_system'.attached_pole \in DOMAIN world'
              /\ world'[cord_system'.attached_pole].kind = "AttachmentPoint"
              /\ FirstNearestInRange(pole_positions, player_pos,
                                     cord_system.attachment_range,
                                     world'[cord_system'.attached_pole].a) ]_vars

(* find_closest_pole has been called with two poles at the same least     *)
(* distance within range, the second not being the one returned.           *)
C11_Witness ==
    /\ probe.call = "find_closest_pole"
    /\ probe.result # NoEntity
    /\ \E j \in 1..Len(probe.input.poles) :
          /\ j > probe.result
          /\ DistSq(probe.input.player_pos, probe.input.poles[j]) =
                 DistSq(probe.input.player_pos, probe.input.poles[probe.result])
    /\ \E j \in 1..Len(probe.input.poles) :
          DistSq(probe.input.player_pos, probe.input.poles[j]) >
              probe.input.max_range * probe.input.max_range

(* The two orders in which the scheduler may run the systems of one frame *)
(* (main registers them in one tuple, without .chain() or .before()); a    *)
(* controller that does not return keeps the other system from running.    *)
RetractionFirst(m, should_retract, dt, just_pressed, ppos) ==
    LET m1 == handle_cord_retraction(m, should_retract, dt, ppos)
    IN  IF m1.hung THEN m1 ELSE handle_cord_attachment(m1, just_pressed, ppos)

AttachmentFirst(m, should_retract, dt, just_pressed, ppos) ==
    handle_cord_retraction(handle_cord_attachment(m, just_pressed, ppos),
                           should_retract, dt, ppos)

(* What a frame leaves behind, entity names aside. *)
FrameOutcome(m) ==
    [ hung           |-> m.hung,
      current_length |-> m.cs.current_length,
      segments       |-> Len(m.cs.segments),
      joints         |-> Len(m.cs.joints),
      attached       |-> m.cs.attached_pole # NoEntity,
      is_retracting  |-> m.cs.is_retracting ]

(* C12: the extension/retraction handler runs before the attachment-      *)
(* toggle handler in every frame, so that from every state at the start of *)
(* a frame, for every input, the outcome of the frame is the same under    *)
(* every order the scheduler may choose for the registered systems.        *)
C12_ScheduleIndependent ==
    (frame_log = <<>> /\ ~hung) =>
        \A should_retract \in BOOLEAN, dt \in 1..MaxDt, just_pressed \in BOOLEAN :
            FrameOutcome(RetractionFirst(Current, should_retract, dt,
                                         just_pressed, player_pos))
              = FrameOutcome(AttachmentFirst(Current, should_retract, dt,
                                             just_pressed, player_pos))

(* The machine with the is_retracting flag inverted. *)
FlagFlipped(m) == [m EXCEPT !.cs.is_retracting = ~@]

(* C13: a tick without retract requested gives the same current_length    *)
(* and the same number of segments from two states that differ only in     *)
(* is_retracting; hence whenever the anchor resolves, the player pulls and *)
(* the cord is shorter than max_length, such a tick lengthens the cord,    *)
(* whatever the tick before it did.                                         *)
C13_FlagIndependent ==
    /\ [](~hung =>
            \A dt \in 1..MaxDt :
                LET a == handle_cord_retraction(Current, FALSE, dt, player_pos)
                    b == handle_cord_retraction(FlagFlipped(Current), FALSE, dt,
                                                player_pos)
                IN  /\ a.cs.current_length = b.cs.current_length
                    /\ Len(a.cs.segments) = Len(b.cs.segments))
    /\ [][ (TickRecorded /\ ~probe'.input.should_retract
               /\ AnchorResolves /\ PlayerPulling
               /\ cord_system.current_length < cord_system.max_length) =>
              cord_system'.current_length > cord_system.current_length ]_vars

(* A tick has extended the cord right after a tick that had extended it,  *)
(* so from a state with is_retracting false.                                *)
C13_Witness ==
    /\ probe.call = "handle_cord_retraction"
    /\ probe.input.previous = "extend"
    /\ ~probe.input.is_retracting
    /\ probe.result = "extend"
    /\ cord_system.current_length > probe.input.current_length

C15_TickArithmetic ==
    /\ [](/\ RetractedLength([current_length |-> 100, min_length |-> 50], 1) = 70
          /\ ExtendedLength([current_length |-> 80, max_length |-> 150], 1) = 88
          /\ ExtendedLength([current_length |-> 149, max_length |-> 150], 1) = 150)
    /\ [][ TickRecorded =>
              LET L  == cord_system.current_length
                  dt == probe'.input.dt
              IN  /\ (probe'.input.should_retract /\ L > cord_system.min_length) =>
                         cord_system'.current_length =
                             Max(L - (300 * dt) \div TicksPerSecond,
                                 cord_system.min_length)
                  /\ (~probe'.input.should_retract /\ AnchorResolves
                         /\ PlayerPulling /\ L < cord_system.max_length) =>
                         cord_system'.current_length =
                             Min(L + (80 * dt) \div TicksPerSecond,
                                 cord_system.max_length) ]_vars

(* An extending tick has stopped at max_length, short of L + 80 * dt. *)
C15_Witness ==
    /\ probe.call = "handle_cord_retraction"
    /\ probe.result = "extend"
    /\ cord_system.current_length = cord_system.max_length
    /\ probe.input.current_length + (80 * probe.input.dt) \div TicksPerSecond
           > cord_system.max_length

(* C16: after a tick that returns without having retracted (retract not   *)
(* requested, or requested with current_length already at min_length)      *)
(* is_retracting is false; it is true only after a tick that shortened     *)
(* the cord.                                                                *)
C16_FlagMeansRetracted ==
    [][ (TickRecorded /\ ~hung') =>
          /\ (~probe'.input.should_retract
                 \/ cord_system.current_length <= cord_system.min_length) =>
                 ~cord_system'.is_retracting
          /\ cord_system'.is_retracting =>
                 cord_system'.current_length < cord_system.current_length ]_vars

(* C17: remove_cord_segment called on a cord of exactly two segments      *)
(* changes neither segments nor joints nor anything else of the cord, and  *)
(* queues no despawn and no spawn.                                          *)
C17_RemoveAtTwoNoOp ==
    [][ ((\E label \in RemoveCallLabels : Ran(label))
            /\ Len(cord_system.segments) = 2) =>
          UNCHANGED <<cord_system, world, pending_spawn, pending_despawn>> ]_vars

(* The last call of the running frame was remove_cord_segment on a cord   *)
(* of two segments, which still has its two segments and all its joints.   *)
C17_Witness ==
    /\ frame_log # <<>>
    /\ Last(frame_log) = "remove_refused"
    /\ Len(cord_system.segments) = 2
    /\ Len(cord_system.joints) = IF Attached THEN 3 ELSE 2

(* C18: a tick without retract requested that finds the cord attached to  *)
(* an anchor it cannot resolve returns, leaving current_length, segments,  *)
(* joints and the world as they were; when on the next tick the anchor     *)
(* resolves, and the player pulls a cord shorter than max_length, that     *)
(* tick lengthens the cord (whether its segment loop returns is C7).       *)
C18_UnresolvedAnchor ==
    /\ [][ (TickRecorded /\ ~probe'.input.should_retract
               /\ Attached /\ ~AnchorResolves) =>
              /\ ~hung'
              /\ cord_system'.current_length = cord_system.current_length
              /\ cord_system'.segments = cord_system.segments
              /\ cord_system'.joints = cord_system.joints
              /\ cord_system'.attached_pole = cord_system.attached_pole
              /\ UNCHANGED <<world, pending_spawn, pending_despawn>> ]_vars
    /\ [][ (TickRecorded /\ ~probe'.input.should_retract
               /\ probe'.input.previous_anchor = "unresolved"
               /\ AnchorResolves /\ PlayerPulling
               /\ cord_system.current_length < cord_system.max_length) =>
              /\ cord_system'.current_length > cord_system.current_length
              /\ cord_system'.current_length <= cord_system.max_length ]_vars

(* A tick has lengthened the cord right after a tick that found the       *)
(* anchor unresolved and did nothing.                                       *)
C18_Witness ==
    /\ probe.call = "handle_cord_retraction"
    /\ probe.input.previous = "idle"
    /\ probe.input.previous_anchor = "unresolved"
    /\ probe.input.anchor = "resolved"
    /\ probe.result = "extend"
    /\ cord_system.current_length > probe.input.current_length

(* C19: whatever add, remove, attach and detach operations have run,      *)
(* the live segment entities are exactly the handles in segments, the      *)
(* live joint entities exactly the handles in joints, no handle occurs     *)
(* twice, and every queued despawn names an existing entity, once.         *)
C19_NoLeakNoDangling ==
    /\ LiveEntities({"CordSegment"}) = Range(cord_system.segments)
    /\ LiveEntities(JointKinds) = Range(cord_system.joints)
    /\ Cardinality(Range(cord_system.segments)) = Len(cord_system.segments)
    /\ Cardinality(Range(cord_system.joints)) = Len(cord_system.joints)
    /\ Range(pending_despawn) \subseteq DOMAIN world
    /\ Cardinality(Range(pending_despawn)) = Len(pending_despawn)

(* Segments have been removed, the cord has been detached and attached    *)
(* again, and a segment has just been added.                                *)
C19_Witness ==
    /\ Logged("add_call")
    /\ \E e \in pending_spawn : world[e].kind = "CordSegment"
    /\ pending_despawn # <<>>
    /\ Len(cord_system.segments) < cord_system.max_length \div cord_system.segment_length
    /\ Attached
    /\ world[cord_system.attached_pole].kind = "AttachmentPoint"

(* The live joints that connect body a to body b. *)
JointsBetween(a, b) ==
    { j \in LiveEntities(JointKinds) : world[j].a = a /\ world[j].b = b }

(* C20: whatever segments have been added and removed, exactly one joint  *)
(* connects each segments[i] to segments[i+1], exactly one joint connects  *)
(* the last segment to the player, it is the last of joints, and no other  *)
(* joint is attached to the player or leads from a segment anywhere else.  *)
C20_JointChain ==
    LET segs   == cord_system.segments
        player == cord_system.player_entity
    IN  /\ \A i \in 1..(Len(segs) - 1) :
              Cardinality(JointsBetween(segs[i], segs[i + 1])) = 1
        /\ cord_system.joints # <<>>
        /\ JointsBetween(Last(segs), player) = {Last(cord_system.joints)}
        /\ \A j \in LiveEntities(JointKinds) :
              /\ world[j].b = player => world[j].a = Last(segs)
              /\ world[j].a \in Range(segs) =>
                     \/ world[j].b = player
                     \/ \E i \in 1..(Len(segs) - 1) :
                            world[j].a = segs[i] /\ world[j].b = segs[i + 1]

(* remove_cord_segment and then add_cord_segment have run in this frame:  *)
(* the last joint is a new joint from a new last segment to the player.    *)
C20_Witness ==
    /\ frame_log # <<>>
    /\ Last(frame_log) = "add_call"
    /\ Logged("remove_call")
    /\ Last(cord_system.segments) \in pending_spawn
    /\ Last(cord_system.joints) \in pending_spawn
    /\ Len(cord_system.segments) >= 3

(* C21: whatever toggles have run, no pole has more than one              *)
(* AttachmentPoint, and a toggle that attaches to a pole which already has *)
(* one attaches the cord to that point and creates none.                    *)
C21_LazyAttachmentPoint ==
    /\ [](\A pole \in 1..NumPoles :
              Cardinality(AttachmentPointsOf(world, pole)) <= 1)
    /\ [][ (~Attached /\ TogglePressed) =>
              \A pole \in 1..NumPoles :
                  (FirstNearestInRange(pole_positions, player_pos,
                                       cord_system.attachment_range, pole)
                     /\ AttachmentPointsOf(world, pole) # {}) =>
                      /\ cord_system'.attached_pole \in AttachmentPointsOf(world, pole)
                      /\ AttachmentPointsOf(world', pole) =
                             AttachmentPointsOf(world, pole) ]_vars

(* A toggle has attached the cord to an attachment point that an earlier  *)
(* attach had created.                                                      *)
C21_Witness ==
    /\ Logged("attach")
    /\ Attached
    /\ cord_system.attached_pole \notin pending_spawn
    /\ world[cord_system.attached_pole].kind = "AttachmentPoint"

(* C22: the attach/detach toggle is edge-triggered.  A run of the toggle  *)
(* handler in a frame where Space is still down from an earlier frame, or  *)
(* is up, leaves attached_pole as it was; the run in the frame in which    *)
(* the key went down flips the cord between attached and detached (when    *)
(* detached, provided a pole is in range).  So a key held across           *)
(* consecutive frames causes one transition, on the first of them.         *)
C22_EdgeTriggered ==
    [][ AttachmentRan =>
          /\ ~keyboard.just_pressed =>
                 cord_system'.attached_pole = cord_system.attached_pole
          /\ (keyboard.just_pressed /\ (Attached \/ ~NoPoleInRange)) =>
                 (cord_system'.attached_pole = NoEntity) # ~Attached ]_vars

(* The toggle handler has run in a third or later consecutive frame with  *)
(* Space down, next to a pole in range, and the cord is still detached as *)
(* the first of these frames left it.                                       *)
C22_Witness ==
    /\ frame = MaxFrames
    /\ keyboard.pressed
    /\ ~keyboard.just_pressed
    /\ Logged("no_key")
    /\ ~Attached
    /\ ~NoPoleInRange

TrackerRan == \E label \in TrailLabels : frame_log' = <<label>>

(* C24: trail backtrack symmetry.  From a trail_path whose last waypoint  *)
(* is the player's tile, a tracker tick with the player on another tile    *)
(* followed by a tick with the player back on that last waypoint's tile    *)
(* leaves trail_path exactly as it was before the two ticks.               *)
C24_BacktrackSymmetry ==
    (/\ probe.call = "update_trail"
     /\ probe.input.previous.trail_path # <<>>
     /\ probe.input.previous.tile # Last(probe.input.previous.trail_path)
     /\ probe.input.tile = Last(probe.input.previous.trail_path))
        => cord_trail.trail_path = probe.input.previous.trail_path

(* A path of at least two waypoints has grown by one on a tick and has    *)
(* been restored by the next tick, the player having stepped back.          *)
C24_Witness ==
    /\ probe.call = "update_trail"
    /\ probe.result = "trail_pop"
    /\ Len(probe.input.previous.trail_path) >= 2
    /\ probe.input.trail_path =
           Append(probe.input.previous.trail_path, probe.input.previous.tile)
    /\ probe.input.tile = Last(probe.input.previous.trail_path)
    /\ cord_trail.trail_path = probe.input.previous.trail_path

(* C25: whenever the cord is attached and trail_path is non-empty, its    *)
(* first waypoint is the snapped tile centre of the anchor the cord is     *)
(* attached to now, also after a detach followed by an attach to another   *)
(* anchor; and no tracker tick empties a non-empty trail.                   *)
C25_FirstWaypointIsAnchor ==
    /\ []((cord_trail.attached_pole # NoEntity /\ cord_trail.trail_path # <<>>) =>
             cord_trail.trail_path[1] =
                 snap_to_tile(pole_positions[cord_trail.attached_pole]))
    /\ [][ (TrackerRan /\ cord_trail.trail_path # <<>>) =>
              cord_trail'.trail_path # <<>> ]_vars

(* The cord, first attached to the centre pole, has been detached and     *)
(* attached to the second pole, and the tracker has laid two waypoints     *)
(* from there.                                                              *)
C25_Witness ==
    /\ cord_trail.attached_pole = 2
    /\ Len(cord_trail.trail_path) = 2
    /\ frame_log = <<"trail_push">>
    /\ snap_to_tile(pole_positions[2]) # pole_positions[2]

(* C26: after any sequence of tracker ticks trail_path never has the same *)
(* tile as two consecutive waypoints, and a tracker tick changes its       *)
(* length by at most one waypoint.                                          *)
C26_NoDuplicateTile ==
    /\ [](\A i \in 1..(Len(cord_trail.trail_path) - 1) :
              ~SameTile(cord_trail.trail_path[i], cord_trail.trail_path[i + 1]))
    /\ [][ TrackerRan =>
              /\ Len(cord_trail'.trail_path) <= Len(cord_trail.trail_path) + 1
              /\ Len(cord_trail'.trail_path) >= Len(cord_trail.trail_path) - 1 ]_vars

(* A tracker tick has found the player still on the tile of the last of   *)
(* several waypoints and has appended nothing.                              *)
C26_Witness ==
    /\ frame_log = <<"trail_keep">>
    /\ Len(cord_trail.trail_path) >= 2
    /\ SameTile(snap_to_tile(player_pos), Last(cord_trail.trail_path))

(* C27: after every update_day_night_cycle tick                           *)
(* 0 <= time_of_day < day_duration, also when one tick advances the time   *)
(* by more than a full day.                                                 *)
C27_TimeInRange ==
    /\ 0 <= cycle.time_of_day
    /\ cycle.time_of_day < cycle.day_duration

(* C28: the battery stays within 0 <= current_charge <= max_charge under  *)
(* any sequence of pole power transfer, solar charging and movement        *)
(* drains; charging never overshoots max_charge.                            *)
C28_BatteryBounds ==
    /\ 0 <= battery.current_charge
    /\ battery.current_charge <= battery.max_charge

(* A solar charge on a battery below full, whose amount would have passed *)
(* max_charge, has stopped at max_charge.                                   *)
C28_Witness ==
    /\ probe.call = "solar_charge"
    /\ probe.input.current_charge < battery.max_charge
    /\ probe.input.current_charge + probe.input.amount > battery.max_charge
    /\ battery.current_charge = battery.max_charge

(* C29: in every reachable state joints.len() is segments.len() + 1 while *)
(* the cord is attached and segments.len() while it is detached (one       *)
(* anchor joint, n-1 inter-segment joints, one player joint), hence        *)
(* segments.len() - 1 <= joints.len() <= segments.len() + 2.               *)
C29_JointsFollowSegments ==
    /\ Attached  => Len(cord_system.joints) = Len(cord_system.segments) + 1
    /\ ~Attached => Len(cord_system.joints) = Len(cord_system.segments)
    /\ Len(cord_system.segments) - 1 <= Len(cord_system.joints)
    /\ Len(cord_system.joints) <= Len(cord_system.segments) + 2

(* A detached cord has been attached again and a segment has been added   *)
(* in the same frame: anchor joint, inter-segment joints and player joint  *)
(* are one more than the segments.                                          *)
C29_Witness ==
    /\ Logged("attach")
    /\ Logged("add_call")
    /\ Attached
    /\ Len(cord_system.joints) = Len(cord_system.segments) + 1
    /\ Len(cord_system.segments) > cord_system.max_length \div cord_system.segment_length

(* C30: after every completed controller tick                             *)
(* segments.len() = max(floor(current_length / segment_length), 2), from   *)
(* the setup state on and through any sequence of extending and            *)
(* retracting ticks.                                                        *)
C30_SegmentsMatchLength ==
    ~hung =>
        Len(cord_system.segments) =
            Max(cord_system.current_length \div cord_system.segment_length, 2)

(* An extending tick has taken the length over a multiple of               *)
(* segment_length and has added the segment that goes with it.             *)
C30_Witness ==
    /\ probe.call = "handle_cord_retraction"
    /\ probe.result = "extend"
    /\ ~hung
    /\ probe.input.current_length \div cord_system.segment_length
           < cord_system.current_length \div cord_system.segment_length
    /\ Len(cord_system.segments) =
           cord_system.current_length \div cord_system.segment_length
    /\ Len(cord_system.segments) > 2

C32_PullReachesMax ==
    [](probe = PullStretch =>
          <>[](cord_system.current_length = cord_system.max_length))

(* The step just taken was a direct call of add_cord_segment or           *)
(* remove_cord_segment.                                                     *)
SegmentCallRan == Ran("add_call") \/ (\E label \in RemoveCallLabels : Ran(label))

(* C33: while the cord is attached, joints[0] is the joint between the    *)
(* attachment point and segments[0]; neither add_cord_segment nor          *)
(* remove_cord_segment despawns or moves it; so the joint a detach removes *)
(* is always the anchor joint.                                              *)
C33_AnchorJointFirst ==
    /\ [](Attached =>
            /\ cord_system.joints # <<>>
            /\ world[Head(cord_system.joints)] =
                   Ent("DistanceJoint", cord_system.attached_pole,
                       Head(cord_system.segments))
            /\ Head(cord_system.joints) \notin Range(pending_despawn))
    /\ [][ (Attached /\ SegmentCallRan) =>
              /\ Head(cord_system'.joints) = Head(cord_system.joints)
              /\ world'[Head(cord_system.joints)] = world[Head(cord_system.joints)]
              /\ Head(cord_system.joints) \notin Range(pending_despawn')
              /\ Head(cord_system'.segments) = Head(cord_system.segments) ]_vars
    /\ [][ (Attached /\ TogglePressed) =>
              /\ Last(pending_despawn') = Head(cord_system.joints)
              /\ world[Last(pending_despawn')].a = cord_system.attached_pole
              /\ Last(pending_despawn') \notin Range(cord_system'.joints) ]_vars

(* In one frame a segment has been added to and a segment removed from a  *)
(* cord attached to a lazily created attachment point, and the first       *)
(* joint still links that point to the first segment.                       *)
C33_Witness ==
    /\ Logged("add_call")
    /\ Logged("remove_call")
    /\ Attached
    /\ world[cord_system.attached_pole].kind = "AttachmentPoint"
    /\ world[Head(cord_system.joints)].a = cord_system.attached_pole
    /\ world[Head(cord_system.joints)].b = Head(cord_system.segments)

(* C34: while the cord_systems toggle is off, a run of the retraction      *)
(* wrapper or of the attachment wrapper leaves the whole cord state as it   *)
(* was (current_length, is_retracting, attached_pole, segments, joints) and *)
(* queues no command, whatever keys are pressed.                            *)
C34_ToggleOffFreezesCord ==
    [][ ( /\ probe'.call \in {"cord_retraction_wrapper", "cord_attachment_wrapper"}
          /\ frame_log' = Append(frame_log, probe'.result)
          /\ ~toggles.cord_systems )
        => UNCHANGED <<cord_system, world, pending_spawn, pending_despawn, hung>> ]_vars

(* With the toggle off, both wrappers have run in one frame, Shift held    *)
(* and Space just pressed, on an attached cord longer than min_length whose *)
(* anchor resolves.                                                         *)
C34_Witness ==
    /\ ~toggles.cord_systems
    /\ Logged("retraction_off")
    /\ Logged("attachment_off")
    /\ probe.call = "cord_attachment_wrapper"
    /\ probe.input.key
    /\ AnchorResolves
    /\ cord_system.current_length > cord_system.min_length

MovePlayerRan == \E label \in MovePlayerLabels : Ran(label)

GridMovementRan == \E label \in GridMovementLabels : Ran(label)

(* C35: a run of move_player starts a new move (changes the mover or the   *)
(* battery) only when the player is not already moving and the battery has  *)
(* charge left; and after every run of grid_movement_system is_moving is    *)
(* true only if target_position is Some.                                    *)
C35_MoveStartsOnlyAtRest ==
    /\ [][ (MovePlayerRan /\ (grid_movement' # grid_movement \/ battery' # battery)) =>
              /\ ~grid_movement.is_moving
              /\ battery.current_charge > 0
              /\ grid_movement'.is_moving
              /\ grid_movement'.target_position # NoTarget ]_vars
    /\ [][ GridMovementRan =>
              (grid_movement'.is_moving => grid_movement'.target_position # NoTarget) ]_vars

(* In one frame the mover has taken a step of a move under way and          *)
(* move_player has declined to start another; the battery is empty.         *)
C35_Witness ==
    /\ Logged("stepped")
    /\ Logged("busy")
    /\ grid_movement.is_moving
    /\ grid_movement.target_position # NoTarget
    /\ battery.current_charge = 0

(* The player sits exactly on the target of the move last started, and the *)
(* mover is at rest.                                                        *)
MoveCompleted ==
    /\ transform = probe.result
    /\ grid_movement.target_position = NoTarget
    /\ ~grid_movement.is_moving

(* A run of grid_movement_system leaves the player between where it was    *)
(* and the target, in both coordinates.                                     *)
NeverPastTarget ==
    (GridMovementRan /\ grid_movement.target_position # NoTarget) =>
        \A i \in 1..2 :
            LET before == grid_movement.target_position[i] - transform[i]
                after  == grid_movement.target_position[i] - transform'[i]
            IN  IF before >= 0 THEN 0 <= after /\ after <= before
                ELSE before <= after /\ after <= 0

(* C36 as stated: every started grid move completes, the player eventually *)
(* sitting exactly on the target with target_position None and is_moving    *)
(* false, and no run of grid_movement_system takes it past the target.      *)
C36_EveryMoveCompletes ==
    /\ [](grid_movement.is_moving => <>MoveCompleted)
    /\ [][NeverPastTarget]_vars

(* C36: every started grid move completes unless the player_movement        *)
(* toggle is switched off while it is under way, and no run of              *)
(* grid_movement_system takes the player past the target.                   *)
C36_MoveCompletesWhileOn ==
    /\ [](grid_movement.is_moving => <>(MoveCompleted \/ ~toggles.player_movement))
    /\ [][NeverPastTarget]_vars

(* A move begun from the origin tile has been completed by a run that      *)
(* stopped short of two units from the target, the toggle on throughout.    *)
C36_Witness ==
    /\ probe.call = "move_player"
    /\ probe.input = <<0, 0>>
    /\ MoveCompleted
    /\ Logged("arrived")
    /\ ~Logged("movement_click")
    /\ toggles.player_movement

(* The control point before segment i, the first one standing in for       *)
(* itself, and the one after its end, the last one standing in for itself.  *)
WindowStart(control_points, i) == control_points[Max(i - 1, 1)]

WindowEnd(control_points, i) == control_points[Min(i + 2, Len(control_points))]

(* C37: generate_spline_points returns no points for fewer than 2 control  *)
(* points, exactly the 2 control points for 2, and for n >= 3 exactly       *)
(* (n - 1) * samples_per_segment + 1 points whose first is the first        *)
(* control point and whose last is the last control point, the point at     *)
(* index (i - 1) * samples_per_segment + j being segment i sampled at       *)
(* t = j / samples_per_segment on its 4-point window.                       *)
C37_SplinePoints ==
    probe.call = "generate_spline_points" =>
        LET cp  == probe.input.control_points
            s   == probe.input.samples_per_segment
            n   == Len(cp)
            out == probe.result
        IN  /\ n < 2 => out = <<>>
            /\ n = 2 => out = <<Scaled(cp[1], s), Scaled(cp[2], s)>>
            /\ n >= 3 =>
                  /\ Len(out) = (n - 1) * s + 1
                  /\ out[1] = Scaled(cp[1], s)
                  /\ out[Len(out)] = Scaled(cp[n], s)
                  /\ \A i \in 1..(n - 1), j \in 0..(s - 1) :
                        out[(i - 1) * s + j + 1] =
                            catmull_rom_spline(WindowStart(cp, i), cp[i], cp[i + 1],
                                               WindowEnd(cp, i), j, s)

(* A path through four control points that turns twice, sampled 8 times    *)
(* per segment: 25 points, and one strictly inside a segment lies off the   *)
(* straight line between its ends.                                          *)
C37_Witness ==
    /\ probe.call = "generate_spline_points"
    /\ probe.input.control_points = << <<0, 0>>, <<10, 0>>, <<10, 20>>, <<0, 0>> >>
    /\ probe.input.samples_per_segment = 8
    /\ Len(probe.result) = 25
    /\ probe.result[5][1] < 10 * SplineScale(8)
    /\ probe.result[5][2] # 0

====
